---- MODULE Spec2Model ----
(***************************************************************************)
(* The DATx miner worker (miner/worker.go): the mint loop, the update      *)
(* loop, the commit loop (wait) and the transaction selector / assembler   *)
(* (Work.commitTransactions).                                              *)
(*                                                                         *)
(* Three specifications are given over one set of variables:               *)
(*   Spec      the three goroutines of the worker and their environment,   *)
(*             over an empty transaction pool;                             *)
(*   SpecPool  Spec with a pool that announces a transaction;              *)
(*   SpecTx    one Work and the transaction batches applied to it, one     *)
(*             loop iteration of commitTransactions per step.              *)
(***************************************************************************)
EXTENDS Integers, Sequences, FiniteSets, TLC

\* ------------------------------------------------------------------ bounds
\* Total number of pending transactions the pool holds.
MaxPool == 3
\* Gas limit of the genesis block (and, by CalcGasLimit, of every block).
GenesisGasLimit == 2
\* Number of createNewWork runs SpecTx follows.
MaxBuilds == 1
\* Highest block hash: bounds the blocks Spec lets the node build or import.
MaxBlocks == 4
\* Results SpecLock lets wait on worker.recv (its capacity is resultQueueSize).
MaxResults == 2
\* Failed deliveries a les peer is allowed (maxResponseErrors of les/peer.go,
\* scaled down).
maxResponseErrors == 2
\* pm.server.defParams.BufLimit, the flow-control buffer limit (scaled down).
BufLimit == 100

\* ------------------------------------------------------- value domains
Senders == {"a", "b"}
\* Senders whose wallet signs replay-protected (EIP155) transactions.
EIP155Signers == {"b"}
\* Gas a transaction asks for (tx.Gas()).
TxGas == {1, 2}
\* Account nonces in the parent state and the first nonce of a pending queue.
StartNonces == {0, 1}
\* config.EIP155Block: -1 stands for nil (never active).
EIP155Blocks == {-1, 0}
\* Nonces of the transactions the pool announces to a running worker.
ArrivalNonces == {0}

resultQueueSize == 10
miningLogAtDepth == 5

\* nil *types.Block / nil *Work
NoBlock == 0
NoWork == 0
\* nil chan struct{}
NoChan == 0
\* The first quit channel (the one newWorker makes).
FirstChan == 1
\* Addresses of quit channels: at most two are referenced at any time (by
\* worker.quitCh and by a running Seal), so a third one is always free.
Chans == FirstChan .. FirstChan + 2
\* The hash of the genesis block.
GenesisHash == 1

VARIABLES
    config,       \* worker.config (params.ChainConfig) and worker.engine
    pool,         \* TxPool().Pending(): sender -> sequence of transactions
    store,        \* chain store: hash -> block
    head,         \* chain.CurrentBlock(): a hash of store
    nextHash,     \* next unused block hash (and Work address)
    works,        \* the Work objects still referenced: address -> Work
    current,      \* worker.current: the address of a Work
    posted,       \* events posted on mux / chain feeds: set of <<type, hash>>
    txq,          \* commitTransactions: txs (TransactionsByPriceAndNonce)
    gp,           \* commitTransactions: gp (core.GasPool)
    tpc,          \* position of the goroutine running commitTransactions
    txErr,        \* commitTransactions: err of the last iteration
    txLast,       \* commitTransactions: tx of the last iteration
    gasHit,       \* commitTransactions: senders whose head got ErrGasLimitReached in this run
    chainHeadCh,  \* worker.chainHeadCh: ChainHeadEvents not yet received
    txCh,         \* worker.txCh: TxPreEvents not yet received
    quitCh,       \* worker.quitCh: the channel it refers to
    closed,       \* the quit channels in use that have been closed
    stopperClosed,\* whether worker.stopper has been closed
    mining,       \* worker.mining
    mpc,          \* position of the mintLoop goroutine
    mwork,        \* mintBlock: work
    sealQ,        \* the quit channel the running Seal was given
    upc,          \* position of the update goroutine
    recv,         \* worker.recv: Results not yet received
    unconfirmed,  \* worker.unconfirmed: hashes of the blocks inserted
    writeStat,    \* wait: what WriteBlockAndState returned, per block
    crashed,      \* the process has panicked
    mLog,         \* what the last call of mintBlock logged before it returned
    cancelled,    \* the Works whose Seal returned with its quit channel closed
    lk,           \* worker.mu, worker.uncleMu, worker.currentMu: the goroutine holding each
    lpc,          \* SpecLock: position of each goroutine
    lop,          \* SpecLock: the worker method the API caller is in
    lrecv,        \* SpecLock: worker.recv, per Result whether its Work is still worker.current
    lwait,        \* SpecLock: whether the Work of the Result wait handles is still worker.current
    pm,           \* the les ProtocolManager: which of its fields are set
    peerSet,      \* pm.peers: the ids of the registered peers
    hpc,          \* position of each peer's handle goroutine
    responseErrors, \* peer.responseErrors, per peer
    hlast,        \* the last message handleMsg handled, and what it did
    fetcherReqs,  \* the request IDs the light fetcher has asked headers with
    dlReqs,       \* per peer, the IDs of the header requests of the downloader
    retrReqs,     \* the request IDs the retriever has sent
    rlast,        \* the last response handled and the request it was taken for
    sync,         \* the downloader's header sync: its peer, the failed peers
    eth,          \* the backend: validator, coinbase, acceptTxs, signer, miner
    wallets,      \* the wallets of the account manager, each a list of accounts
    smRet,        \* the last StartMining call and the error it returned
    sh,           \* the SetHead call of the API backend and its position
    chainDb,      \* the blocks of the chain store in the order they were written
    imp,          \* the ImportChain calls: the last file, its InsertChain calls
    stop,         \* ProtocolManager.Start and Stop: positions, quitSync, wg
    run,          \* per peer, the position of the Run callback of its session
    loops,        \* SpecMint: the position of every mintLoop goroutine spawned
    apiStart,     \* per caller of PrivateMinerAPI.Start, its position
    dl,           \* SpecDl: the stage of every block of the downloader's sync
    fetcher,      \* SpecFetch: the announcements, the fetches and their meters
    tm,           \* SpecTime: the clock, the parent's time and the header's Time
    hs,           \* SpecHeaders: the last GetBlockHeaders query and its reply
    ns,           \* SpecNodeSet: a light.NodeSet and the goroutines that call Put
    cbs           \* SpecCoinbase: the backend's and the worker's coinbase, the callers

chainVars == <<config, pool, store, head, nextHash, works, current, posted>>
loopVars == <<txq, gp, tpc, txErr, txLast, gasHit>>
histVars == <<mLog, cancelled>>
workerVars == <<chainHeadCh, txCh, quitCh, closed, stopperClosed, mining, mpc, mwork, sealQ, upc, recv, unconfirmed, writeStat, crashed, histVars>>
lockVars == <<lk, lpc, lop, lrecv, lwait>>
lesVars == <<pm, peerSet, hpc, responseErrors, hlast>>
\* The variables of the specifications further down (SpecResp and after).
respVars == <<fetcherReqs, dlReqs, retrReqs, rlast, sync>>
nodeVars == <<eth, wallets, smRet>>
importVars == <<chainDb, imp>>
stopVars == <<stop, run>>
mintVars == <<loops, apiStart>>
\* The variables of the specifications of single functions (SpecTime and after).
calcVars == <<tm, hs, ns, cbs>>
auxVars == <<respVars, nodeVars, sh, importVars, stopVars, mintVars, dl, fetcher, calcVars>>
vars == <<chainVars, loopVars, workerVars, lockVars, lesVars, auxVars>>

\* ------------------------------------------------------- transactions
Tx(s, n, g) == [from |-> s, nonce |-> n, gas |-> g, prot |-> s \in EIP155Signers]
NoTx == [from |-> "none", nonce |-> 0, gas |-> 0, prot |-> FALSE]

\* The pending queues one sender can have: consecutive nonces from a start nonce.
Queues(s) ==
    {<<>>} \cup
    UNION { { [i \in 1..n |-> Tx(s, n0 + i - 1, g[i])] : g \in [1..n -> TxGas] }
            : n \in 1..MaxPool, n0 \in StartNonces }

RECURSIVE SumLen(_, _)
SumLen(q, S) ==
    IF S = {} THEN 0
    ELSE LET s == CHOOSE x \in S : TRUE IN Len(q[s]) + SumLen(q, S \ {s})

Pools ==
    { p \in [Senders -> UNION { Queues(s) : s \in Senders }] :
        /\ \A s \in Senders : p[s] \in Queues(s)
        /\ SumLen(p, Senders) <= MaxPool }

RECURSIVE SumGas(_)
SumGas(txs) == IF txs = <<>> THEN 0 ELSE Head(txs).gas + SumGas(Tail(txs))

\* config.IsEIP155(num)
IsEIP155(cfg, num) == cfg.EIP155Block >= 0 /\ cfg.EIP155Block <= num

\* types.NewTransactionsByPriceAndNonce: one queue per sender, the heads merged
\* by price. Prices are not modelled: any live head may be the best-priced one.
NewTransactionsByPriceAndNonce(txs) == txs
EmptyQueue == [s \in Senders |-> <<>>]
Live(q) == { s \in Senders : q[s] # <<>> }
\* Peek returns the head of a live sender; Shift replaces it by that sender's
\* next transaction; Pop drops the sender.
Peek(q, s) == Head(q[s])
Shift(q, s) == [q EXCEPT ![s] = Tail(@)]
Pop(q, s) == [q EXCEPT ![s] = <<>>]

\* ------------------------------------------------------- state engine
\* core.ApplyTransaction: the errors it can return for tx against env.state / gp.
ApplyOutcomes(env, pl, tx) ==
    IF tx.nonce < env.state[tx.from] THEN {"ErrNonceTooLow"}
    ELSE IF tx.nonce > env.state[tx.from] THEN {"ErrNonceTooHigh"}
    ELSE {"ErrOther"} \cup (IF pl < tx.gas THEN {"ErrGasLimitReached"} ELSE {"nil"})

\* core.ApplyTransaction with outcome out: on success the sender's nonce moves on,
\* the gas is taken from the pool and added to header.GasUsed; a failing
\* transaction may leave the state and the dpos context partly changed.
ApplyTransaction(env, pl, tx, out) ==
    CASE out = "nil" ->
            [err |-> "nil",
             env |-> [env EXCEPT !.state[tx.from] = @ + 1,
                                 !.dposContext = @ + 1,
                                 !.header.GasUsed = @ + tx.gas],
             gp |-> pl - tx.gas,
             receipt |-> [tx |-> tx, CumulativeGasUsed |-> env.header.GasUsed + tx.gas]]
      [] out = "ErrOther" ->
            [err |-> out,
             env |-> [env EXCEPT !.state[tx.from] = @ + 1, !.dposContext = @ + 1],
             gp |-> pl,
             receipt |-> [tx |-> NoTx, CumulativeGasUsed |-> 0]]
      [] OTHER ->
            [err |-> out, env |-> env, gp |-> pl,
             receipt |-> [tx |-> NoTx, CumulativeGasUsed |-> 0]]

\* core.CalcGasLimit(parent)
CalcGasLimit(parent) == parent.GasLimit

\* ------------------------------------------------------- Work
\* commitTransaction without the revert to the snapshots.
commitTransactionNoRevert(env, pl, tx, out) ==
    LET r == ApplyTransaction(env, pl, tx, out)
    IN  IF r.err # "nil"
        THEN [err |-> r.err, env |-> r.env, gp |-> r.gp]
        ELSE [err |-> "nil",
              env |-> [r.env EXCEPT !.txs = Append(@, tx),
                                    !.receipts = Append(@, r.receipt)],
              gp |-> r.gp]

\* commitTransaction with the transaction and its receipt appended before the
\* error of ApplyTransaction is looked at.
commitTransactionAppendFirst(env, pl, tx, out) ==
    LET snap == env.state
        dposSnap == env.dposContext
        r == ApplyTransaction(env, pl, tx, out)
        kept == [r.env EXCEPT !.txs = Append(@, tx), !.receipts = Append(@, r.receipt)]
    IN  IF r.err # "nil"
        THEN [err |-> r.err,
              env |-> [kept EXCEPT !.state = snap, !.dposContext = dposSnap],
              gp |-> r.gp]
        ELSE [err |-> "nil", env |-> kept, gp |-> r.gp]

\* Work.commitTransaction
commitTransaction(env, pl, tx, out) ==
    LET snap == env.state
        dposSnap == env.dposContext
        r == ApplyTransaction(env, pl, tx, out)
    IN  IF r.err # "nil"
        THEN [err |-> r.err,
              env |-> [r.env EXCEPT !.state = snap, !.dposContext = dposSnap],
              gp |-> r.gp]
        ELSE [err |-> "nil",
              env |-> [r.env EXCEPT !.txs = Append(@, tx),
                                    !.receipts = Append(@, r.receipt)],
              gp |-> r.gp]

\* commitIter with a Shift where the sender is popped on ErrNonceTooHigh.
commitIterShiftTooHigh(env, pl, q, s, out) ==
    LET tx == Peek(q, s) IN
    IF tx.prot /\ ~IsEIP155(env.config, env.header.Number)
    THEN [err |-> "skip", env |-> env, gp |-> pl, q |-> Pop(q, s)]
    ELSE LET r == commitTransaction(env, pl, tx, out) IN
         CASE r.err = "ErrGasLimitReached" ->
                [err |-> r.err, env |-> r.env, gp |-> r.gp, q |-> Pop(q, s)]
           [] r.err = "nil" ->
                [err |-> r.err, env |-> [r.env EXCEPT !.tcount = @ + 1],
                 gp |-> r.gp, q |-> Shift(q, s)]
           [] OTHER ->
                [err |-> r.err, env |-> r.env, gp |-> r.gp, q |-> Shift(q, s)]

\* commitIter with a Shift where the sender is popped on ErrGasLimitReached.
commitIterShiftOnGasLimit(env, pl, q, s, out) ==
    LET tx == Peek(q, s) IN
    IF tx.prot /\ ~IsEIP155(env.config, env.header.Number)
    THEN [err |-> "skip", env |-> env, gp |-> pl, q |-> Pop(q, s)]
    ELSE LET r == commitTransaction(env, pl, tx, out) IN
         CASE r.err = "ErrGasLimitReached" ->
                [err |-> r.err, env |-> r.env, gp |-> r.gp, q |-> Shift(q, s)]
           [] r.err = "ErrNonceTooLow" ->
                [err |-> r.err, env |-> r.env, gp |-> r.gp, q |-> Shift(q, s)]
           [] r.err = "ErrNonceTooHigh" ->
                [err |-> r.err, env |-> r.env, gp |-> r.gp, q |-> Pop(q, s)]
           [] r.err = "nil" ->
                [err |-> r.err, env |-> [r.env EXCEPT !.tcount = @ + 1],
                 gp |-> r.gp, q |-> Shift(q, s)]
           [] OTHER ->
                [err |-> r.err, env |-> r.env, gp |-> r.gp, q |-> Shift(q, s)]

\* commitIter with the loop left (no sender kept) on ErrGasLimitReached.
commitIterBreakOnGasLimit(env, pl, q, s, out) ==
    LET tx == Peek(q, s) IN
    IF tx.prot /\ ~IsEIP155(env.config, env.header.Number)
    THEN [err |-> "skip", env |-> env, gp |-> pl, q |-> Pop(q, s)]
    ELSE LET r == commitTransaction(env, pl, tx, out) IN
         CASE r.err = "ErrGasLimitReached" ->
                [err |-> r.err, env |-> r.env, gp |-> r.gp, q |-> EmptyQueue]
           [] r.err = "ErrNonceTooLow" ->
                [err |-> r.err, env |-> r.env, gp |-> r.gp, q |-> Shift(q, s)]
           [] r.err = "ErrNonceTooHigh" ->
                [err |-> r.err, env |-> r.env, gp |-> r.gp, q |-> Pop(q, s)]
           [] r.err = "nil" ->
                [err |-> r.err, env |-> [r.env EXCEPT !.tcount = @ + 1],
                 gp |-> r.gp, q |-> Shift(q, s)]
           [] OTHER ->
                [err |-> r.err, env |-> r.env, gp |-> r.gp, q |-> Shift(q, s)]

\* commitIter with the sender popped where it is shifted on ErrNonceTooLow.
commitIterPopTooLow(env, pl, q, s, out) ==
    LET tx == Peek(q, s) IN
    IF tx.prot /\ ~IsEIP155(env.config, env.header.Number)
    THEN [err |-> "skip", env |-> env, gp |-> pl, q |-> Pop(q, s)]
    ELSE LET r == commitTransaction(env, pl, tx, out) IN
         CASE r.err \in {"ErrGasLimitReached", "ErrNonceTooLow", "ErrNonceTooHigh"} ->
                [err |-> r.err, env |-> r.env, gp |-> r.gp, q |-> Pop(q, s)]
           [] r.err = "nil" ->
                [err |-> r.err, env |-> [r.env EXCEPT !.tcount = @ + 1],
                 gp |-> r.gp, q |-> Shift(q, s)]
           [] OTHER ->
                [err |-> r.err, env |-> r.env, gp |-> r.gp, q |-> Shift(q, s)]

\* commitIter with the loop left (no sender kept) on an error of no known kind.
commitIterAbortOnOther(env, pl, q, s, out) ==
    LET tx == Peek(q, s) IN
    IF tx.prot /\ ~IsEIP155(env.config, env.header.Number)
    THEN [err |-> "skip", env |-> env, gp |-> pl, q |-> Pop(q, s)]
    ELSE LET r == commitTransaction(env, pl, tx, out) IN
         CASE r.err \in {"ErrGasLimitReached", "ErrNonceTooHigh"} ->
                [err |-> r.err, env |-> r.env, gp |-> r.gp, q |-> Pop(q, s)]
           [] r.err = "ErrNonceTooLow" ->
                [err |-> r.err, env |-> r.env, gp |-> r.gp, q |-> Shift(q, s)]
           [] r.err = "nil" ->
                [err |-> r.err, env |-> [r.env EXCEPT !.tcount = @ + 1],
                 gp |-> r.gp, q |-> Shift(q, s)]
           [] OTHER ->
                [err |-> r.err, env |-> r.env, gp |-> r.gp, q |-> EmptyQueue]

\* commitIter with the transaction left in the queue on ErrNonceTooLow.
commitIterKeepTooLow(env, pl, q, s, out) ==
    LET tx == Peek(q, s) IN
    IF tx.prot /\ ~IsEIP155(env.config, env.header.Number)
    THEN [err |-> "skip", env |-> env, gp |-> pl, q |-> Pop(q, s)]
    ELSE LET r == commitTransaction(env, pl, tx, out) IN
         CASE r.err \in {"ErrGasLimitReached", "ErrNonceTooHigh"} ->
                [err |-> r.err, env |-> r.env, gp |-> r.gp, q |-> Pop(q, s)]
           [] r.err = "ErrNonceTooLow" ->
                [err |-> r.err, env |-> r.env, gp |-> r.gp, q |-> q]
           [] r.err = "nil" ->
                [err |-> r.err, env |-> [r.env EXCEPT !.tcount = @ + 1],
                 gp |-> r.gp, q |-> Shift(q, s)]
           [] OTHER ->
                [err |-> r.err, env |-> r.env, gp |-> r.gp, q |-> Shift(q, s)]

\* One iteration of the loop of Work.commitTransactions, on the head of sender s.
commitIter(env, pl, q, s, out) ==
    LET tx == Peek(q, s) IN
    IF tx.prot /\ ~IsEIP155(env.config, env.header.Number)
    THEN [err |-> "skip", env |-> env, gp |-> pl, q |-> Pop(q, s)]
    ELSE LET r == commitTransaction(env, pl, tx, out) IN
         CASE r.err = "ErrGasLimitReached" ->
                [err |-> r.err, env |-> r.env, gp |-> r.gp, q |-> Pop(q, s)]
           [] r.err = "ErrNonceTooLow" ->
                [err |-> r.err, env |-> r.env, gp |-> r.gp, q |-> Shift(q, s)]
           [] r.err = "ErrNonceTooHigh" ->
                [err |-> r.err, env |-> r.env, gp |-> r.gp, q |-> Pop(q, s)]
           [] r.err = "nil" ->
                [err |-> r.err, env |-> [r.env EXCEPT !.tcount = @ + 1],
                 gp |-> r.gp, q |-> Shift(q, s)]
           [] OTHER ->
                [err |-> r.err, env |-> r.env, gp |-> r.gp, q |-> Shift(q, s)]

\* The outcomes the iteration on the head of sender s can have.
IterOutcomes(env, pl, q, s) ==
    IF Peek(q, s).prot /\ ~IsEIP155(env.config, env.header.Number)
    THEN {"skip"}
    ELSE ApplyOutcomes(env, pl, Peek(q, s))

\* new(core.GasPool).AddGas(env.header.GasLimit)
NewGasPool(env) == env.header.GasLimit

\* The events commitTransactions posts when its loop is over.
PendingEvents(env) ==
    IF env.tcount > 0 THEN {<<"PendingStateEvent", NoBlock>>} ELSE {}

\* worker.makeCurrent
makeCurrent(cfg, parent, header) ==
    [config |-> cfg,
     state |-> parent.state,
     dposContext |-> parent.dposContext,
     tcount |-> 0,
     Block |-> NoBlock,
     blockTxs |-> <<>>,
     header |-> header,
     txs |-> <<>>,
     receipts |-> <<>>,
     parent |-> parent.hash]

\* NewHeader with the parent's number taken over as it is.
NewHeaderSameNumber(parent) ==
    [ParentHash |-> parent.hash,
     Number |-> parent.Number,
     GasLimit |-> CalcGasLimit(parent),
     GasUsed |-> 0]

\* The header worker.createNewWork builds on parent.
NewHeader(parent) ==
    [ParentHash |-> parent.hash,
     Number |-> parent.Number + 1,
     GasLimit |-> CalcGasLimit(parent),
     GasUsed |-> 0]

\* engine.Finalize and types.NewBlock: the block of the header and a copy of
\* the transactions, hashed h.
Finalize(env, h) == [env EXCEPT !.Block = h, !.blockTxs = env.txs]

\* types.NewBlock(header, txs, nil, receipts): a block that is never nil.
NewBlock(header, txs) == [nil |-> FALSE, header |-> header, txs |-> txs]

\* worker.pendingBlock (and the block of worker.pending) with m the mining
\* flag and w worker.current: a new block of the Work's header and
\* transactions when not mining, else the pointer w.Block as it is.
pendingBlock(m, w) ==
    IF m = 0 THEN NewBlock(w.header, w.txs)
    ELSE [nil |-> w.Block = NoBlock, header |-> w.header, txs |-> w.blockTxs]

\* Every Work a whole run of commitTransactions can leave, from env, pl and q.
RECURSIVE RunBatch(_, _, _)
RunBatch(env, pl, q) ==
    IF Live(q) = {} THEN {env}
    ELSE UNION { UNION { LET r == commitIter(env, pl, q, s, out)
                         IN  RunBatch(r.env, r.gp, r.q)
                         : out \in IterOutcomes(env, pl, q, s) }
                 : s \in Live(q) }

\* The genesis block over the account nonces st.
Genesis(st) ==
    [hash |-> GenesisHash, ParentHash |-> NoBlock, Number |-> 0,
     GasLimit |-> GenesisGasLimit, GasUsed |-> 0,
     state |-> st, dposContext |-> 0, txs |-> <<>>, mined |-> FALSE]

\* The Work objects that are still referenced (the others are garbage).
Keep(w, refs) == [a \in (DOMAIN w) \cap refs |-> w[a]]

\* ------------------------------------------------------- mutexes and peers
\* The goroutines that use the worker's mutexes: mintLoop, update, wait and a
\* caller of the worker's methods.
Threads == {"mint", "update", "wait", "api"}
Mutexes == {"mu", "uncleMu", "currentMu"}
NoHolder == "none"

\* No mutex is held; mintLoop is between ticks, update and wait are at their
\* receive, and no method is being called.
InitLocks ==
    /\ lk = [m \in Mutexes |-> NoHolder]
    /\ lpc = [t \in Threads |-> CASE t = "mint" -> "select" [] t = "update" -> "select"
                                   [] t = "wait" -> "recv" [] OTHER -> "idle"]
    /\ lop = "none"
    /\ lrecv = <<>>
    /\ lwait = FALSE

\* The remote peers that connect to the les ProtocolManager.
Peers == {"p1", "p2"}
NoManager == [built |-> FALSE, lightSync |-> FALSE, odr |-> FALSE, txpool |-> FALSE,
              server |-> FALSE]
NoMsg == [peer |-> "none", code |-> "none", size |-> 0, decodes |-> TRUE, cnt |-> 0,
          bufValue |-> 0, deliver |-> "nil", err |-> "nil", did |-> {}]

\* No ProtocolManager has been made and no peer has connected.
InitLes ==
    /\ pm = NoManager
    /\ peerSet = {}
    /\ hpc = [p \in Peers |-> "new"]
    /\ responseErrors = [p \in Peers |-> 0]
    /\ hlast = NoMsg

\* The request IDs genReqID hands out; 0 stands for no request.
ReqIDs == {1, 2}
NoResp == [reqID |-> 0, to |-> "none", served |-> 0]
NoSync == [state |-> "idle", cur |-> "none", failed |-> {}, err |-> "nil",
           reqErr |-> "nil", sent |-> TRUE]

\* No request is in flight and no sync runs.
InitResp ==
    /\ fetcherReqs = {}
    /\ dlReqs = [p \in Peers |-> {}]
    /\ retrReqs = {}
    /\ rlast = NoResp
    /\ sync = NoSync

\* The account addresses; ZeroAddr is common.Address{}.
Addrs == {"A", "B"}
ZeroAddr == "zero"
\* The wallets a backend can hold and the StartMining calls a run makes.
MaxWallets == 2
MaxStartCalls == 2

\* A new backend: validator and coinbase not set, no wallet, transactions
\* not accepted, no signer authorized and the miner not started.
InitNode ==
    /\ eth = [validator |-> ZeroAddr, coinbase |-> ZeroAddr, acceptTxs |-> 0,
              signer |-> ZeroAddr, minerStarts |-> <<>>]
    /\ wallets = <<>>
    /\ smRet = [n |-> 0, local |-> FALSE, err |-> "nil"]

\* The SetHead calls a run makes.
MaxSetHeads == 1
\* No SetHead call has been made.
InitSetHead ==
    sh = [pc |-> "idle", number |-> 0, n |-> 0, wasSyncing |-> FALSE]

\* The blocks a file can hold, the blocks ImportChain reads into one batch
\* (2500 in the code) and the ImportChain calls a run makes.
MaxFileBlocks == 3
BatchCap == 2
MaxImports == 2
\* The chain store holds the genesis block, number 0; no file was imported.
InitImport ==
    /\ chainDb = <<0>>
    /\ imp = [n |-> 0, file |-> <<>>, again |-> FALSE, calls |-> <<>>, ok |-> TRUE]

\* The manager is not started, Stop was not called, quitSync is open, the
\* wait group counts no session and no peer has connected.
InitStop ==
    /\ stop = [started |-> FALSE, receiver |-> "none", spc |-> "idle",
               quitSync |-> "open", peersClosed |-> FALSE, wg |-> 0]
    /\ run = [p \in Peers |-> "idle"]

\* The mintLoop goroutines a run spawns and the callers of the miner API.
MaxLoops == 2
Callers == {"c1", "c2"}
\* No mintLoop was spawned and no API call is under way.
InitMint ==
    /\ loops = <<>>
    /\ apiStart = [c \in Callers |-> "idle"]

\* The blocks of the chain a sync downloads, numbered from 1.
MaxDlBlocks == 3
DlBlocks == 1 .. MaxDlBlocks
\* No block was asked for; late is set once a body has arrived before the
\* body of a lower block.
InitDl == dl = [stage |-> [n \in DlBlocks |-> "none"], late |-> FALSE]

\* The announced hashes, the announcements one peer may have pending
\* (hashLimit) and the announcements a run makes.
Hashes == {"h1", "h2"}
hashLimit == 2
MaxAnnounces == 4
\* Nothing was announced or fetched.
InitFetch ==
    fetcher = [announced |-> [h \in Hashes |-> {}], fetching |-> {},
               announces |-> [h \in Hashes |-> 0], pending |-> [p \in Peers |-> 0],
               headerFetchMeter |-> [h \in Hashes |-> 0], propAnnounceDOSMeter |-> 0]

\* The width of the machine integers (64 in the code).
IntBits == 4
MaxInt64 == 2^(IntBits - 1) - 1
\* No header was built.
NoTime == [built |-> FALSE, now |-> 0, parent |-> 0, Time |-> 0]
\* The number of the head of the chain a server holds and the largest
\* Amount a query of the model asks for (both small; Amount <= MaxHeaderFetch).
ChainHead == 3
MaxAmount == 3
\* No GetBlockHeaders request was served.
NoQuery == [Hash |-> 0, Number |-> 0, Amount |-> 0, Skip |-> 0, Reverse |-> FALSE]
NoServe == [served |-> FALSE, query |-> NoQuery, headers |-> <<>>, panic |-> FALSE]
\* The keys and values of the trie nodes put, the goroutines that put them
\* and the Put calls a run makes.
Keys == {"k1", "k2"}
Values == {<<>>, <<1>>, <<2, 2>>}
Putters == {"g1", "g2"}
MaxPuts == 3
NoArg == [key |-> "none", value |-> <<>>]
\* NewNodeSet: an empty map, dataSize 0 and a free lock; no Put was called.
NewNodeSet ==
    [db |-> <<>>, dataSize |-> 0, lock |-> "none",
     pc |-> [g \in Putters |-> "idle"], arg |-> [g \in Putters |-> NoArg],
     first |-> <<>>, n |-> 0]
\* The goroutines that call SetCoinbase and the calls a run makes.
Setters == {"s1", "s2"}
MaxSets == 3
\* No coinbase is configured in the backend or in the worker; no call runs.
NoCoinbase ==
    [coinbase |-> "zero", worker |-> "zero", pc |-> [g \in Setters |-> "idle"],
     arg |-> [g \in Setters |-> "zero"], n |-> 0]
InitCalc ==
    /\ tm = NoTime
    /\ hs = NoServe
    /\ ns = NewNodeSet
    /\ cbs = NoCoinbase

InitAux ==
    /\ InitCalc
    /\ InitResp
    /\ InitNode
    /\ InitSetHead
    /\ InitImport
    /\ InitStop
    /\ InitMint
    /\ InitDl
    /\ InitFetch

\* =================================================================== SpecTx
\* The worker fields SpecTx leaves alone: the worker is not started.
InitWorker ==
    /\ chainHeadCh = <<>>
    /\ txCh = <<>>
    /\ quitCh = FirstChan
    /\ closed = {}
    /\ stopperClosed = FALSE
    /\ mining = 0
    /\ mpc = "stopped"
    /\ mwork = NoWork
    /\ sealQ = NoChan
    /\ upc = "select"
    /\ recv = <<>>
    /\ unconfirmed = {}
    /\ writeStat = <<>>
    /\ crashed = FALSE
    /\ mLog = "none"
    /\ cancelled = {}

InitLoop ==
    /\ txq = EmptyQueue
    /\ gp = 0
    /\ tpc = "idle"
    /\ txErr = "nil"
    /\ txLast = NoTx
    /\ gasHit = {}

\* newWorker has started its goroutines and is about to call createNewWork.
InitTx ==
    /\ config \in [EIP155Block : EIP155Blocks, engine : {"dpos"}]
    /\ pool \in Pools
    /\ \E st \in [Senders -> StartNonces] : store = (GenesisHash :> Genesis(st))
    /\ head = GenesisHash
    /\ nextHash = GenesisHash + 1
    /\ works = <<>>
    /\ current = NoWork
    /\ posted = {}
    /\ InitLoop
    /\ InitWorker
    /\ InitLocks
    /\ InitLes
    /\ InitAux

\* createNewWork up to its call of commitTransactions.
TxCreateNewWork ==
    /\ tpc = "idle"
    /\ nextHash - GenesisHash <= MaxBuilds
    /\ LET parent == store[head]
           work == makeCurrent(config, parent, NewHeader(parent))
       IN  /\ works' = (nextHash :> work)
           /\ current' = nextHash
           /\ txq' = NewTransactionsByPriceAndNonce(pool)
           /\ gp' = NewGasPool(work)
    /\ nextHash' = nextHash + 1
    /\ tpc' = "create"
    /\ txErr' = "nil"
    /\ txLast' = NoTx
    /\ gasHit' = {}
    /\ UNCHANGED <<config, pool, store, head, posted, workerVars, lockVars, lesVars, auxVars>>

\* update() handling a TxPreEvent while not mining, up to commitTransactions.
TxPreEvent(tx) ==
    /\ tpc = "idle"
    /\ current # NoWork
    /\ mining = 0
    /\ txq' = NewTransactionsByPriceAndNonce([EmptyQueue EXCEPT ![tx.from] = <<tx>>])
    /\ gp' = NewGasPool(works[current])
    /\ tpc' = "update"
    /\ txErr' = "nil"
    /\ txLast' = NoTx
    /\ gasHit' = {}
    /\ UNCHANGED <<chainVars, workerVars, lockVars, lesVars, auxVars>>

\* One iteration of the loop of commitTransactions.
TxIter(s, out) ==
    /\ tpc \in {"create", "update"}
    /\ s \in Live(txq)
    /\ out \in IterOutcomes(works[current], gp, txq, s)
    /\ LET r == commitIter(works[current], gp, txq, s, out)
       IN  /\ works' = [works EXCEPT ![current] = r.env]
           /\ gp' = r.gp
           /\ txq' = r.q
           /\ txErr' = r.err
    /\ txLast' = Peek(txq, s)
    /\ gasHit' = IF txErr' = "ErrGasLimitReached" THEN gasHit \cup {s} ELSE gasHit
    /\ UNCHANGED <<config, pool, store, head, nextHash, current, posted, tpc, workerVars, lockVars, lesVars, auxVars>>

\* The loop is over: the events are posted; createNewWork finalizes the block.
TxFinish ==
    /\ tpc \in {"create", "update"}
    /\ Live(txq) = {}
    /\ posted' = posted \cup PendingEvents(works[current])
    /\ IF tpc = "create"
       THEN works' = [works EXCEPT ![current] = Finalize(@, current)]
       ELSE UNCHANGED works
    /\ tpc' = "idle"
    /\ UNCHANGED <<config, pool, store, head, nextHash, current, txq, gp, txErr, txLast,
                   gasHit,
                   workerVars, lockVars, lesVars, auxVars>>

PoolTxs == UNION { { pool[s][i] : i \in DOMAIN pool[s] } : s \in Senders }
IterErrs == {"nil", "ErrOther", "ErrGasLimitReached", "ErrNonceTooLow", "ErrNonceTooHigh", "skip"}

NextTx ==
    \/ TxCreateNewWork
    \/ \E tx \in PoolTxs : TxPreEvent(tx)
    \/ \E s \in Senders, out \in IterErrs : TxIter(s, out)
    \/ TxFinish

SpecTx == InitTx /\ [][NextTx]_vars

\* ===================================================================== Spec
\* What dpos.CheckValidator can return.
CheckErrs == {"ErrWaitForPrevBlock", "ErrMintFutureBlock", "ErrInvalidBlockValidator",
              "ErrInvalidMintBlockTime", "ErrOtherCheck"}
\* Where createNewWork can fail.
CreateErrs == {"ErrPrepare", "ErrStateAt", "ErrPending", "ErrFinalize"}

\* unconfirmedBlocks.Shift(height): drops the blocks miningLogAtDepth below height.
UnconfirmedShift(set, st, height) ==
    { h \in set : st[h].Number + miningLogAtDepth > height }

\* The block the chain store keeps for the sealed block of Work w.
BlockOf(w) ==
    [hash |-> w.Block, ParentHash |-> w.header.ParentHash, Number |-> w.header.Number,
     GasLimit |-> w.header.GasLimit, GasUsed |-> w.header.GasUsed,
     state |-> w.state, dposContext |-> w.dposContext, txs |-> w.blockTxs, mined |-> TRUE]

\* The pool drops the transactions the new head's state has gone past.
RECURSIVE DropBelow(_, _)
DropBelow(q, n) ==
    IF q = <<>> \/ Head(q).nonce >= n THEN q ELSE DropBelow(Tail(q), n)
PoolReset(p, st) == [s \in Senders |-> DropBelow(p[s], st[s])]

\* The state after newWorker: its createNewWork has built the first Work on the
\* genesis block, from an empty pool; the miner has not been started.
Init ==
    /\ config \in [EIP155Block : {0}, engine : {"dpos", "other"}]
    /\ pool = EmptyQueue
    /\ store = (GenesisHash :> Genesis([s \in Senders |-> 0]))
    /\ head = GenesisHash
    /\ nextHash = GenesisHash + 2
    /\ works = ((GenesisHash + 1) :>
                   Finalize(makeCurrent(config, store[GenesisHash],
                                        NewHeader(store[GenesisHash])), GenesisHash + 1))
    /\ current = GenesisHash + 1
    /\ posted = {}
    /\ InitLoop
    /\ InitWorker
    /\ InitLocks
    /\ InitLes
    /\ InitAux

\* worker.start (the caller starts a stopped miner)
Start ==
    /\ ~crashed
    /\ mining = 0
    /\ mpc = "stopped"
    /\ mining' = 1
    /\ mpc' = "select"
    /\ UNCHANGED <<chainVars, loopVars, lockVars, lesVars, auxVars, chainHeadCh, txCh, quitCh, closed,
                   stopperClosed, mwork, sealQ, upc, recv, unconfirmed,
                   writeStat, crashed, histVars>>

\* worker.stop
Stop ==
    /\ ~crashed
    /\ mining = 1
    /\ mining' = 0
    /\ stopperClosed' = TRUE
    /\ UNCHANGED <<chainVars, loopVars, lockVars, lesVars, auxVars, chainHeadCh, txCh, quitCh, closed,
                   mpc, mwork, sealQ, upc, recv, unconfirmed, writeStat, crashed, histVars>>

\* The chain imports a block of a peer on top of the head: the head moves, the
\* pool is reset and a ChainHeadEvent is sent to the worker.
Import ==
    /\ ~crashed
    /\ nextHash <= MaxBlocks
    /\ LET p == store[head]
           b == [hash |-> nextHash, ParentHash |-> p.hash, Number |-> p.Number + 1,
                 GasLimit |-> CalcGasLimit(p), GasUsed |-> 0,
                 state |-> p.state, dposContext |-> p.dposContext, txs |-> <<>>,
                 mined |-> FALSE]
       IN  store' = store @@ (nextHash :> b)
    /\ head' = nextHash
    /\ nextHash' = nextHash + 1
    /\ chainHeadCh' = Append(chainHeadCh, nextHash)
    /\ UNCHANGED <<config, pool, works, current, posted, loopVars, lockVars, lesVars, auxVars, txCh, quitCh, closed,
                   stopperClosed, mining, mpc, mwork, sealQ, upc,
                   recv, unconfirmed, writeStat, crashed, histVars>>

\* The pool accepts a transaction and announces it (SpecPool only: in Spec the
\* pool stays empty, and SpecTx covers the pools and batches in general).
TxArrive ==
    /\ ~crashed
    /\ pool = EmptyQueue
    /\ txCh = <<>>
    /\ LET tx == Tx("a", store[head].state["a"], 1)
       IN  /\ tx.nonce \in ArrivalNonces
           /\ pool' = [pool EXCEPT !["a"] = Append(@, tx)]
           /\ txCh' = Append(txCh, tx)
    /\ UNCHANGED <<config, store, head, nextHash, works, current, posted, loopVars, lockVars, lesVars, auxVars,
                   chainHeadCh, quitCh, closed, stopperClosed, mining,
                   mpc, mwork, sealQ, upc, recv, unconfirmed, writeStat, crashed, histVars>>

\* What mintBlock logs when CheckValidator returns err.
CheckLog(err) ==
    IF err \in {"ErrWaitForPrevBlock", "ErrMintFutureBlock", "ErrInvalidBlockValidator",
                "ErrInvalidMintBlockTime"}
    THEN "debug: Failed to mint the block, while"
    ELSE "error: Failed to mint the block"

\* mintAfterCheck with ErrWaitForPrevBlock let through.
mintAfterCheckLenient(err) ==
    IF err \in {"nil", "ErrWaitForPrevBlock"} THEN "create" ELSE "select"

\* Where mintBlock goes when CheckValidator returned err: on to createNewWork,
\* or back to the select of mintLoop.
mintAfterCheck(err) == IF err = "nil" THEN "create" ELSE "select"

\* mintLoop receives a tick: mintBlock up to the result of CheckValidator.
Tick(err) ==
    /\ ~crashed
    /\ mpc = "select"
    /\ IF config.engine # "dpos"
       THEN /\ mLog' = "error: Only the dpos engine was allowed"
            /\ UNCHANGED mpc
       ELSE /\ mintAfterCheck(err) = "create" => nextHash <= MaxBlocks
            /\ mLog' = IF err = "nil" THEN "none" ELSE CheckLog(err)
            /\ mpc' = mintAfterCheck(err)
    /\ UNCHANGED <<chainVars, loopVars, lockVars, lesVars, auxVars, chainHeadCh, txCh, quitCh, closed,
                   stopperClosed, mining, mwork, sealQ, upc, recv, unconfirmed,
                   writeStat, crashed, cancelled>>

\* mintBlock: createNewWork, failing at out or returning the Work.
CreateNewWork(out) ==
    /\ ~crashed
    /\ mpc = "create"
    /\ LET parent == store[head]
           fresh == makeCurrent(config, parent, NewHeader(parent))
           refs == { recv[i].Work : i \in DOMAIN recv } \cup {nextHash}
       IN  CASE out \in {"ErrPrepare", "ErrStateAt"} ->
                    UNCHANGED <<works, current, nextHash, posted, unconfirmed>>
             [] out = "ErrPending" ->
                    /\ works' = Keep(works, refs) @@ (nextHash :> fresh)
                    /\ current' = nextHash
                    /\ nextHash' = nextHash + 1
                    /\ UNCHANGED <<posted, unconfirmed>>
             [] OTHER ->
                    \E w \in RunBatch(fresh, NewGasPool(fresh),
                                      NewTransactionsByPriceAndNonce(pool)) :
                        /\ works' = Keep(works, refs) @@
                                    (nextHash :> IF out = "nil" THEN Finalize(w, nextHash)
                                                                ELSE w)
                        /\ current' = nextHash
                        /\ nextHash' = nextHash + 1
                        /\ posted' = posted \cup PendingEvents(w)
                        /\ unconfirmed' =
                              IF out = "nil" /\ mining = 1
                              THEN UnconfirmedShift(unconfirmed, store, w.header.Number - 1)
                              ELSE unconfirmed
    /\ mwork' = IF out = "nil" THEN nextHash ELSE NoWork
    /\ mpc' = IF out = "nil" THEN "seal" ELSE "select"
    /\ mLog' = IF out = "nil" THEN mLog ELSE "error: Failed to create the new work"
    /\ UNCHANGED <<config, pool, store, head, loopVars, lockVars, lesVars, auxVars, chainHeadCh, txCh, quitCh, closed,
                   stopperClosed, mining, sealQ, upc, recv, writeStat,
                   crashed, cancelled>>

\* mintBlock calls engine.Seal with the channel worker.quitCh refers to now.
CallSeal ==
    /\ ~crashed
    /\ mpc = "seal"
    /\ sealQ' = quitCh
    /\ mpc' = "sealing"
    /\ UNCHANGED <<chainVars, loopVars, lockVars, lesVars, auxVars, chainHeadCh, txCh, quitCh, closed,
                   stopperClosed, mining, mwork, upc, recv, unconfirmed,
                   writeStat, crashed, histVars>>

\* What engine.Seal can return: once its quit channel is closed it returns no
\* block (nil with or without an error); otherwise the sealed block or an error.
SealOutcomes(q, cl) == IF q \in cl THEN {"quit", "ErrSeal"} ELSE {"block", "ErrSeal"}

\* SealResult with the Work's unsealed block in place of what Seal returned.
SealResultOfWork(a, w, out) == [Work |-> a, Block |-> w.Block]

\* The Result mintBlock makes of the Work at address a and of what Seal returned.
SealResult(a, w, out) == [Work |-> a, Block |-> IF out = "block" THEN w.Block ELSE NoBlock]

\* mintSend without the return that follows the logging of Seal's error.
mintSendAlways(rq, a, w, out) == Append(rq, SealResult(a, w, out))

\* worker.recv after mintBlock has handled what Seal returned: an error is
\* logged and nothing is sent; otherwise the Result is sent.
mintSend(rq, a, w, out) ==
    IF out = "ErrSeal" THEN rq ELSE Append(rq, SealResult(a, w, out))

\* Seal returns; mintBlock logs its error or sends the Result on recv. The
\* channel Seal was given is in use from then on only if it is worker.quitCh.
SealReturn(out) ==
    /\ ~crashed
    /\ mpc = "sealing"
    /\ out \in SealOutcomes(sealQ, closed)
    /\ Len(mintSend(recv, mwork, works[mwork], out)) <= resultQueueSize
    /\ recv' = mintSend(recv, mwork, works[mwork], out)
    /\ works' = Keep(works, { recv'[i].Work : i \in DOMAIN recv' } \cup {current})
    /\ mLog' = IF out = "ErrSeal" THEN "error: Failed to seal the block" ELSE mLog
    /\ cancelled' = IF sealQ \in closed THEN cancelled \cup {mwork} ELSE cancelled
    /\ mwork' = NoWork
    /\ sealQ' = NoChan
    /\ closed' = closed \cap {quitCh}
    /\ mpc' = "select"
    /\ UNCHANGED <<config, pool, store, head, nextHash, current, posted, loopVars, lockVars, lesVars, auxVars,
                   chainHeadCh, txCh, quitCh, stopperClosed, mining,
                   upc, unconfirmed, writeStat, crashed>>

\* make(chan struct{}, 1): a channel at an address that is not in use (refs).
make(refs) == CHOOSE c \in Chans \ refs : \A d \in Chans \ refs : c <= d

\* mintLoop receives from stopper: close(self.quitCh).
MintStopClose ==
    /\ ~crashed
    /\ mpc = "select"
    /\ stopperClosed
    /\ IF quitCh \in closed
       THEN /\ crashed' = TRUE
            /\ UNCHANGED <<closed, mpc>>
       ELSE /\ closed' = closed \cup {quitCh}
            /\ mpc' = "stopping"
            /\ crashed' = FALSE
    /\ UNCHANGED <<chainVars, loopVars, lockVars, lesVars, auxVars, chainHeadCh, txCh, quitCh, stopperClosed,
                   mining, mwork, sealQ, upc, recv, unconfirmed, writeStat, histVars>>

\* mintLoop replaces quitCh and stopper and returns. The channel it replaces is
\* in use from then on only if the running Seal was given it.
MintStopReplace ==
    /\ ~crashed
    /\ mpc = "stopping"
    /\ quitCh' = make({quitCh, sealQ})
    /\ closed' = closed \cap {sealQ}
    /\ stopperClosed' = FALSE
    /\ mpc' = "stopped"
    /\ UNCHANGED <<chainVars, loopVars, lockVars, lesVars, auxVars, chainHeadCh, txCh, mining, mwork,
                   sealQ, upc, recv, unconfirmed, writeStat, crashed, histVars>>

\* update receives a ChainHeadEvent: close(self.quitCh).
UpdateHeadClose ==
    /\ ~crashed
    /\ upc = "select"
    /\ chainHeadCh # <<>>
    /\ chainHeadCh' = Tail(chainHeadCh)
    /\ IF quitCh \in closed
       THEN /\ crashed' = TRUE
            /\ UNCHANGED <<closed, upc>>
       ELSE /\ closed' = closed \cup {quitCh}
            /\ upc' = "replace"
            /\ crashed' = FALSE
    /\ UNCHANGED <<chainVars, loopVars, lockVars, lesVars, auxVars, txCh, quitCh, stopperClosed, mining,
                   mpc, mwork, sealQ, recv, unconfirmed, writeStat, histVars>>

\* update: self.quitCh = make(chan struct{}, 1). The channel it replaces is in
\* use from then on only if the running Seal was given it.
UpdateHeadReplace ==
    /\ ~crashed
    /\ upc = "replace"
    /\ quitCh' = make({quitCh, sealQ})
    /\ closed' = closed \cap {sealQ}
    /\ upc' = "select"
    /\ UNCHANGED <<chainVars, loopVars, lockVars, lesVars, auxVars, chainHeadCh, txCh, stopperClosed, mining,
                   mpc, mwork, sealQ, recv, unconfirmed, writeStat, crashed, histVars>>


\* updateApplies with the event applied whatever worker.mining holds.
updateAppliesAlways(m) == TRUE

\* update applies a TxPreEvent to the current Work when worker.mining, loaded
\* as the event is handled, is 0.
updateApplies(m) == m = 0

\* update receives a TxPreEvent: applied to the current Work if not mining.
UpdateTx ==
    /\ ~crashed
    /\ upc = "select"
    /\ txCh # <<>>
    /\ txCh' = Tail(txCh)
    /\ IF updateApplies(mining)
       THEN LET tx == Head(txCh)
                env == works[current]
            IN  \E w \in RunBatch(env, NewGasPool(env),
                                  NewTransactionsByPriceAndNonce(
                                      [EmptyQueue EXCEPT ![tx.from] = <<tx>>])) :
                    /\ works' = [works EXCEPT ![current] = w]
                    /\ posted' = posted \cup PendingEvents(w)
       ELSE UNCHANGED <<works, posted>>
    /\ UNCHANGED <<config, pool, store, head, nextHash, current, loopVars, lockVars, lesVars, auxVars, chainHeadCh,
                   quitCh, closed, stopperClosed, mining, mpc, mwork,
                   sealQ, upc, recv, unconfirmed, writeStat, crashed, histVars>>

\* What chain.WriteBlockAndState can return for block b on head hd: an error, or
\* the status: a longer chain becomes the head, a shorter one is a side chain.
WriteOutcomes(b, hd) ==
    {"err"} \cup
    (IF b.Number > hd.Number THEN {"CanonStatTy"}
     ELSE IF b.Number = hd.Number THEN {"CanonStatTy", "SideStatTy"}
     ELSE {"SideStatTy"})

\* WaitEvents with the ChainHeadEvent posted whatever the status.
WaitEventsAlwaysHead(h, stat) ==
    {<<"NewMinedBlockEvent", h>>, <<"ChainEvent", h>>, <<"ChainHeadEvent", h>>}

\* The events wait posts for block h written with status stat.
WaitEvents(h, stat) ==
    {<<"NewMinedBlockEvent", h>>, <<"ChainEvent", h>>} \cup
    (IF stat = "CanonStatTy" THEN {<<"ChainHeadEvent", h>>} ELSE {})

\* wait receives a Result: one iteration of its loop.
WaitRecv(out) ==
    /\ ~crashed
    /\ recv # <<>>
    /\ recv' = Tail(recv)
    /\ LET result == Head(recv)
           work == works[result.Work]
           refs == { recv[i].Work : i \in 2..Len(recv) } \cup {current} \cup
                   (IF mpc \in {"seal", "sealing"} THEN {mwork} ELSE {})
       IN  /\ works' = Keep(works, refs)
           /\ IF result.Block = NoBlock
              THEN /\ out = "err"
                   /\ UNCHANGED <<store, head, pool, posted, chainHeadCh, unconfirmed,
                                  writeStat>>
              ELSE /\ out \in WriteOutcomes(BlockOf(work), store[head])
                   /\ writeStat' = writeStat @@ (result.Block :> out)
                   /\ IF out = "err"
                      THEN UNCHANGED <<store, head, pool, posted, chainHeadCh, unconfirmed>>
                      ELSE /\ store' = store @@ (result.Block :> BlockOf(work))
                           /\ posted' = posted \cup WaitEvents(result.Block, out)
                           /\ unconfirmed' = unconfirmed \cup {result.Block}
                           /\ IF out = "CanonStatTy"
                              THEN /\ head' = result.Block
                                   /\ pool' = PoolReset(pool, work.state)
                                   /\ chainHeadCh' = Append(chainHeadCh, result.Block)
                              ELSE UNCHANGED <<head, pool, chainHeadCh>>
    /\ UNCHANGED <<config, nextHash, current, loopVars, lockVars, lesVars, auxVars, txCh, quitCh, closed,
                   stopperClosed, mining, mpc, mwork, sealQ, upc, crashed, histVars>>

Next ==
    \/ Start
    \/ Stop
    \/ Import
    \/ \E err \in CheckErrs \cup {"nil"} : Tick(err)
    \/ \E out \in CreateErrs \cup {"nil"} : CreateNewWork(out)
    \/ CallSeal
    \/ \E out \in {"block", "quit", "ErrSeal"} : SealReturn(out)
    \/ MintStopClose
    \/ MintStopReplace
    \/ UpdateHeadClose
    \/ UpdateHeadReplace
    \/ \E out \in {"err", "CanonStatTy", "SideStatTy"} : WaitRecv(out)

Spec == Init /\ [][Next]_vars

\* Spec with a pool that announces transactions to the update loop.
NextPool == Next \/ TxArrive \/ UpdateTx
SpecPool == Init /\ [][NextPool]_vars

\* Seal returns because its quit channel is closed: an engine that polls the
\* signal does so at last, while a Seal whose channel is open may block.
SealQuit == sealQ \in closed /\ \E out \in {"quit", "ErrSeal"} : SealReturn(out)

\* Spec with the scheduling of the goroutines: mintBlock goes on from
\* createNewWork to the Seal call, a cancelled Seal returns, update and wait
\* take what is on their channels, and the select of mintLoop, which picks
\* among its ready cases at random, takes the closed stopper at last.
Fairness ==
    /\ WF_vars(\E out \in CreateErrs \cup {"nil"} : CreateNewWork(out))
    /\ WF_vars(CallSeal)
    /\ WF_vars(SealQuit)
    /\ SF_vars(MintStopClose)
    /\ WF_vars(MintStopReplace)
    /\ WF_vars(UpdateHeadClose)
    /\ WF_vars(UpdateHeadReplace)
    /\ WF_vars(\E out \in {"err", "CanonStatTy", "SideStatTy"} : WaitRecv(out))
SpecFair == Init /\ [][Next]_vars /\ Fairness

\* ================================================================= SpecLock
\* The worker's goroutines step by step through the code that takes and gives
\* back its mutexes. The chain, the Works' contents and the channels are those
\* of Spec and stay as Init leaves them here: only who holds which mutex and
\* where each goroutine is matter.
frozenVars == <<chainVars, loopVars, workerVars, lesVars, auxVars>>

\* sync.Mutex.Lock by goroutine t, which goes from position from to position to.
Lock(t, m, from, to) ==
    /\ lpc[t] = from
    /\ lk[m] = NoHolder
    /\ lk' = [lk EXCEPT ![m] = t]
    /\ lpc' = [lpc EXCEPT ![t] = to]

\* mintLoop's ticker fires and mintBlock gets as far as calling createNewWork.
LockTick ==
    /\ lpc["mint"] = "select"
    /\ config.engine = "dpos"
    /\ lpc' = [lpc EXCEPT !["mint"] = "lockMu"]
    /\ UNCHANGED <<frozenVars, lk, lop, lrecv, lwait>>

\* createNewWork takes mu, uncleMu and currentMu, in this order.
CreateLockMu ==
    /\ Lock("mint", "mu", "lockMu", "lockUncle")
    /\ UNCHANGED <<frozenVars, lop, lrecv, lwait>>
CreateLockUncle ==
    /\ Lock("mint", "uncleMu", "lockUncle", "lockCurrent")
    /\ UNCHANGED <<frozenVars, lop, lrecv, lwait>>
CreateLockCurrent ==
    /\ Lock("mint", "currentMu", "lockCurrent", "tstamp")
    /\ UNCHANGED <<frozenVars, lop, lrecv, lwait>>

\* createNewWork computes the timestamp: when it is more than a second ahead
\* of the clock (far), it calls time.Sleep.
CreateTimestamp(far) ==
    /\ lpc["mint"] = "tstamp"
    /\ lpc' = [lpc EXCEPT !["mint"] = IF far THEN "sleep" ELSE "build"]
    /\ UNCHANGED <<frozenVars, lk, lop, lrecv, lwait>>

\* time.Sleep returns.
CreateWake ==
    /\ lpc["mint"] = "sleep"
    /\ lpc' = [lpc EXCEPT !["mint"] = "build"]
    /\ UNCHANGED <<frozenVars, lk, lop, lrecv, lwait>>

\* createNewWork builds the header, makes the new current Work (unless it
\* fails before makeCurrent sets worker.current), commits the transactions,
\* finalizes, and returns: its deferred Unlocks give the three mutexes back.
CreateBuild(out) ==
    /\ lpc["mint"] = "build"
    /\ lk' = [m \in Mutexes |-> NoHolder]
    /\ IF out \in {"ErrPrepare", "ErrStateAt"}
       THEN UNCHANGED <<lrecv, lwait>>
       ELSE /\ lrecv' = [i \in DOMAIN lrecv |-> FALSE]
            /\ lwait' = FALSE
    /\ lpc' = [lpc EXCEPT !["mint"] = IF out = "nil" THEN "seal" ELSE "select"]
    /\ UNCHANGED <<frozenVars, lop>>

\* mintBlock gives work.Block to engine.Seal and sends the Result on recv, or
\* returns on Seal's error.
LockSeal(out) ==
    /\ lpc["mint"] = "seal"
    /\ IF out = "ErrSeal"
       THEN UNCHANGED lrecv
       ELSE /\ Len(lrecv) < MaxResults
            /\ lrecv' = Append(lrecv, TRUE)
    /\ lpc' = [lpc EXCEPT !["mint"] = "select"]
    /\ UNCHANGED <<frozenVars, lk, lop, lwait>>

\* update receives a TxPreEvent and loads worker.mining (m).
UpdateEvent(m) ==
    /\ lpc["update"] = "select"
    /\ lpc' = [lpc EXCEPT !["update"] = IF updateApplies(m) THEN "lock" ELSE "select"]
    /\ UNCHANGED <<frozenVars, lk, lop, lrecv, lwait>>

\* update takes currentMu,
UpdateLock ==
    /\ Lock("update", "currentMu", "lock", "commit")
    /\ UNCHANGED <<frozenVars, lop, lrecv, lwait>>

\* calls current.commitTransactions with worker.coinbase, and gives it back.
UpdateCommit ==
    /\ lpc["update"] = "commit"
    /\ lk' = [lk EXCEPT !["currentMu"] = NoHolder]
    /\ lpc' = [lpc EXCEPT !["update"] = "select"]
    /\ UNCHANGED <<frozenVars, lop, lrecv, lwait>>

\* wait receives a Result with a block.
WaitResult ==
    /\ lpc["wait"] = "recv"
    /\ lrecv # <<>>
    /\ lwait' = Head(lrecv)
    /\ lrecv' = Tail(lrecv)
    /\ lpc' = [lpc EXCEPT !["wait"] = "logs"]
    /\ UNCHANGED <<frozenVars, lk, lop>>

\* wait sets the block hash in the logs of work.receipts and work.state and
\* writes the block with them.
WaitWrite ==
    /\ lpc["wait"] = "logs"
    /\ lpc' = [lpc EXCEPT !["wait"] = "recv"]
    /\ UNCHANGED <<frozenVars, lk, lop, lrecv, lwait>>

\* The worker methods a caller can be in, and the mutex each takes.
ApiOps == {"pending", "pendingBlock", "setCoinbase", "setExtra"}
ApiMutex(op) == IF op \in {"pending", "pendingBlock"} THEN "currentMu" ELSE "mu"

\* A caller enters one of the methods,
ApiCall(op) ==
    /\ lpc["api"] = "idle"
    /\ lop' = op
    /\ lpc' = [lpc EXCEPT !["api"] = "lock"]
    /\ UNCHANGED <<frozenVars, lk, lrecv, lwait>>

\* takes the method's mutex,
ApiLock ==
    /\ Lock("api", ApiMutex(lop), "lock", "in")
    /\ UNCHANGED <<frozenVars, lop, lrecv, lwait>>

\* runs its body and returns: the deferred Unlock gives the mutex back.
ApiReturn ==
    /\ lpc["api"] = "in"
    /\ lk' = [lk EXCEPT ![ApiMutex(lop)] = NoHolder]
    /\ lop' = "none"
    /\ lpc' = [lpc EXCEPT !["api"] = "idle"]
    /\ UNCHANGED <<frozenVars, lrecv, lwait>>

\* What goroutine t reads (r) and writes (w) at its position: the fields of
\* the worker, and "work" for the fields of a Work that is or was
\* worker.current (isCurrent tells which).
Access(o, m, c) == [obj |-> o, mode |-> m, isCurrent |-> c]
Accesses(t) ==
    CASE t = "mint" /\ lpc[t] = "build" ->
            {Access("coinbase", "r", TRUE), Access("extra", "r", TRUE), Access("work", "w", TRUE)}
      [] t = "mint" /\ lpc[t] = "seal" -> {Access("work", "r", TRUE)}
      [] t = "update" /\ lpc[t] = "commit" ->
            {Access("work", "w", TRUE), Access("coinbase", "r", TRUE)}
      [] t = "wait" /\ lpc[t] = "logs" -> {Access("work", "w", lwait)}
      [] t = "api" /\ lpc[t] = "in" ->
            (CASE lop \in {"pending", "pendingBlock"} -> {Access("work", "r", TRUE)}
               [] lop = "setCoinbase" -> {Access("coinbase", "w", TRUE)}
               [] OTHER -> {Access("extra", "w", TRUE)})
      [] OTHER -> {}

\* The mutex the worker has for each kind of field.
Guard(o) == IF o = "work" THEN "currentMu" ELSE "mu"

\* The positions at which a goroutine sleeps.
Sleeping(t) == t = "mint" /\ lpc[t] = "sleep"

\* The goroutine is at a Lock of a mutex another goroutine holds.
BlockedOn(t) ==
    CASE t = "mint" /\ lpc[t] = "lockMu" -> lk["mu"]
      [] t = "mint" /\ lpc[t] = "lockUncle" -> lk["uncleMu"]
      [] t = "mint" /\ lpc[t] = "lockCurrent" -> lk["currentMu"]
      [] t = "update" /\ lpc[t] = "lock" -> lk["currentMu"]
      [] t = "api" /\ lpc[t] = "lock" -> lk[ApiMutex(lop)]
      [] OTHER -> NoHolder

NextLock ==
    \/ LockTick
    \/ CreateLockMu
    \/ CreateLockUncle
    \/ CreateLockCurrent
    \/ \E far \in BOOLEAN : CreateTimestamp(far)
    \/ CreateWake
    \/ \E out \in CreateErrs \cup {"nil"} : CreateBuild(out)
    \/ \E out \in {"block", "ErrSeal"} : LockSeal(out)
    \/ \E m \in {0, 1} : UpdateEvent(m)
    \/ UpdateLock
    \/ UpdateCommit
    \/ WaitResult
    \/ WaitWrite
    \/ \E op \in ApiOps : ApiCall(op)
    \/ ApiLock
    \/ ApiReturn

SpecLock == Init /\ [][NextLock]_vars

\* ================================================================== SpecLes
\* les/handler.go: the ProtocolManager's handle loop, one goroutine per peer.
MaxHeaderFetch == 192
MaxBodyFetch == 32
MaxReceiptFetch == 128
MaxCodeFetch == 64
MaxProofsFetch == 64
MaxHelperTrieProofsFetch == 64
MaxTxSend == 64
MaxTxStatus == 256
\* Largest message the protocol allows (les/protocol.go).
ProtocolMaxMsgSize == 10 * 1024 * 1024

\* The request-type messages (reqList) and the per-request maximum of each.
reqList == {"GetBlockHeadersMsg", "GetBlockBodiesMsg", "GetCodeMsg", "GetReceiptsMsg",
            "GetProofsV1Msg", "SendTxMsg", "SendTxV2Msg", "GetTxStatusMsg",
            "GetHeaderProofsMsg", "GetProofsV2Msg", "GetHelperTrieProofsMsg"}
MaxOf(code) ==
    CASE code = "GetBlockHeadersMsg" -> MaxHeaderFetch
      [] code = "GetBlockBodiesMsg" -> MaxBodyFetch
      [] code = "GetCodeMsg" -> MaxCodeFetch
      [] code = "GetReceiptsMsg" -> MaxReceiptFetch
      [] code \in {"GetProofsV1Msg", "GetProofsV2Msg"} -> MaxProofsFetch
      [] code \in {"GetHeaderProofsMsg", "GetHelperTrieProofsMsg"} -> MaxHelperTrieProofsFetch
      [] code \in {"SendTxMsg", "SendTxV2Msg"} -> MaxTxSend
      [] code = "GetTxStatusMsg" -> MaxTxStatus
      [] OTHER -> 0
\* The responses handleMsg hands to the retriever, and the other known codes.
DeliverCodes == {"BlockBodiesMsg", "CodeMsg", "ReceiptsMsg", "ProofsV1Msg", "ProofsV2Msg",
                 "HeaderProofsMsg", "HelperTrieProofsMsg"}
OtherCodes == {"StatusMsg", "AnnounceMsg", "BlockHeadersMsg", "TxStatusMsg"}
KnownCodes == reqList \cup DeliverCodes \cup OtherCodes

\* p.fcCosts[code], the server's cost table (les/flowcontrol is not modelled
\* further): a base cost and a cost per requested item.
fcCosts(code) == [baseCost |-> 10, reqCost |-> 1]
\* The buffer values AcceptRequest can return, from empty to BufLimit.
BufValues == {0, BufLimit \div 2, BufLimit}

\* The messages a peer can send: every known code and an unknown one, with a
\* size, a payload that decodes or not, the number of items requested, the
\* buffer value AcceptRequest returns for it, and the result (io) of sending
\* the reply or of retriever.deliver.
Msg(c, sz, dec, n, bv, io) ==
    [code |-> c, size |-> sz, decodes |-> dec, cnt |-> n, bufValue |-> bv, io |-> io]
Msgs ==
    { Msg(c, 1, TRUE, n, bv, io) :
          c \in reqList, n \in {1}, bv \in BufValues, io \in {"nil", "err"} }
    \cup UNION { { Msg(c, 1, TRUE, n, bv, "nil") : n \in {MaxOf(c), MaxOf(c) + 1} }
                 : c \in reqList, bv \in BufValues }
    \cup { Msg(c, 1, TRUE, 0, 0, io) : c \in DeliverCodes, io \in {"nil", "err"} }
    \cup { Msg(c, 1, TRUE, 0, 0, "nil") : c \in OtherCodes \cup {"UnknownMsg"} }
    \cup { Msg(c, 1, FALSE, 0, BufLimit, "nil") : c \in KnownCodes }
    \cup { Msg(c, ProtocolMaxMsgSize + 1, TRUE, 1, BufLimit, "nil") : c \in KnownCodes }
    \cup { Msg(c, ProtocolMaxMsgSize, TRUE, 1, BufLimit, "nil") : c \in {"GetCodeMsg", "CodeMsg"} }

\* reject with the per-request maximum not looked at.
rejectNoMax(fcClient, reqCnt, maxCnt, costs, bufValue) ==
    IF ~fcClient THEN TRUE
    ELSE LET cost == costs.baseCost + reqCnt * costs.reqCost
             capped == IF cost > BufLimit THEN BufLimit ELSE cost
         IN  capped > bufValue

\* handleMsg's reject(reqCnt, maxCnt), for a peer with or without fcClient,
\* the costs of the message's code and the buffer value AcceptRequest returns.
reject(fcClient, reqCnt, maxCnt, costs, bufValue) ==
    IF ~fcClient \/ reqCnt > maxCnt THEN TRUE
    ELSE LET cost == costs.baseCost + reqCnt * costs.reqCost
             capped == IF cost > BufLimit THEN BufLimit ELSE cost
         IN  capped > bufValue

\* The cost reject compares with the buffer value: at most BufLimit.
rejectCost(reqCnt, costs) ==
    LET cost == costs.baseCost + reqCnt * costs.reqCost
    IN  IF cost > BufLimit THEN BufLimit ELSE cost

\* The cost handleMsg passes to fcClient.RequestProcessed for a request of
\* reqCnt items.
RequestProcessedCost(reqCnt, costs) == costs.baseCost + reqCnt * costs.reqCost

\* tooLarge with no message too large.
tooLargeNever(size) == FALSE

\* The size check at the head of handleMsg.
tooLarge(size) == size > ProtocolMaxMsgSize

\* deliver with the peer dropped when the counter reaches maxResponseErrors.
deliverAtThreshold(re, derr) ==
    IF derr = "nil" THEN [err |-> "nil", responseErrors |-> re]
    ELSE [err |-> IF re + 1 >= maxResponseErrors THEN derr ELSE "nil",
          responseErrors |-> re + 1]

\* The tail of handleMsg: retriever.deliver returned derr for a peer whose
\* responseErrors is re.
deliver(re, derr) ==
    IF derr = "nil" THEN [err |-> "nil", responseErrors |-> re]
    ELSE [err |-> IF re + 1 > maxResponseErrors THEN derr ELSE "nil",
          responseErrors |-> re + 1]

\* handleMsg on message msg of a peer whose responseErrors is re, in manager
\* m: the error it returns, what it did, and the peer's responseErrors after.
handleMsg(m, re, msg) ==
    LET res(err, did) == [err |-> err, did |-> did, responseErrors |-> re]
        rejected == reject(m.server, msg.cnt, MaxOf(msg.code), fcCosts(msg.code),
                           msg.bufValue)
        serve(work, replies) ==
            IF ~msg.decodes THEN res("ErrDecode", {})
            ELSE IF rejected THEN res("ErrRequestRejected", {})
            ELSE res(IF replies THEN msg.io ELSE "nil",
                     work \cup {"RequestProcessed"} \cup (IF replies THEN {"reply"} ELSE {}))
    IN  IF tooLarge(msg.size) THEN res("ErrMsgTooLarge", {})
        ELSE CASE msg.code = "StatusMsg" -> res("ErrExtraStatusMsg", {})
               [] msg.code = "AnnounceMsg" ->
                    IF m.server THEN res("ErrUnexpectedResponse", {})
                    ELSE IF ~msg.decodes THEN res("ErrDecode", {})
                    ELSE res("nil", {"announce"})
               [] msg.code \in {"SendTxMsg", "SendTxV2Msg"} ->
                    IF ~m.txpool THEN res("ErrRequestRejected", {})
                    ELSE serve({"AddRemotes"}, msg.code = "SendTxV2Msg")
               [] msg.code = "GetTxStatusMsg" ->
                    IF ~m.txpool THEN res("ErrUnexpectedResponse", {})
                    ELSE serve({"gather"}, TRUE)
               [] msg.code \in reqList -> serve({"gather"}, TRUE)
               [] msg.code = "BlockHeadersMsg" ->
                    IF ~m.lightSync THEN res("ErrUnexpectedResponse", {})
                    ELSE IF ~msg.decodes THEN res("ErrDecode", {})
                    ELSE res("nil", {"GotReply", "deliverHeaders"})
               [] msg.code = "TxStatusMsg" ->
                    IF ~m.odr THEN res("ErrUnexpectedResponse", {})
                    ELSE IF ~msg.decodes THEN res("ErrDecode", {})
                    ELSE res("nil", {"GotReply"})
               [] msg.code \in DeliverCodes ->
                    IF ~m.odr THEN res("ErrUnexpectedResponse", {})
                    ELSE IF ~msg.decodes THEN res("ErrDecode", {})
                    ELSE [did |-> {"GotReply", "deliver"}] @@ deliver(re, msg.io)
               [] OTHER -> res("ErrInvalidMsgCode", {})

\* removePeer with the peer left in the set.
removePeerNone(set, id) == set

\* removePeer: pm.peers.Unregister(id).
removePeer(set, id) == set \ {id}

\* NewProtocolManager for a light client (lightSync, with an odr and no
\* transaction pool) or for a server (with a pool; peers get a flow-control
\* client in the handshake).
NewProtocolManager(lightSync) ==
    /\ ~pm.built
    /\ pm' = [built |-> TRUE, lightSync |-> lightSync, odr |-> lightSync,
              txpool |-> ~lightSync, server |-> ~lightSync]
    /\ UNCHANGED <<chainVars, loopVars, workerVars, lockVars, auxVars, peerSet, hpc,
                   responseErrors, hlast>>

\* handle up to its main loop: the handshake and the registration succeed
\* (ok) or handle returns before the peer was registered.
HandleConnect(p, ok) ==
    /\ pm.built
    /\ hpc[p] = "new"
    /\ hpc' = [hpc EXCEPT ![p] = IF ok THEN "loop" ELSE "done"]
    /\ peerSet' = IF ok THEN peerSet \cup {p} ELSE peerSet
    /\ UNCHANGED <<chainVars, loopVars, workerVars, lockVars, auxVars, pm, responseErrors, hlast>>

\* One round of handle's main loop: handleMsg on the peer's next message; on
\* an error handle returns and its deferred function removes the peer.
HandleMsg(p, msg) ==
    /\ hpc[p] = "loop"
    /\ LET r == handleMsg(pm, responseErrors[p], msg)
       IN  /\ responseErrors' = [responseErrors EXCEPT ![p] = r.responseErrors]
           /\ hlast' = [peer |-> p, code |-> msg.code, size |-> msg.size,
                        decodes |-> msg.decodes, cnt |-> msg.cnt,
                        bufValue |-> msg.bufValue, deliver |-> msg.io,
                        err |-> r.err, did |-> r.did]
           /\ IF r.err = "nil"
              THEN UNCHANGED <<hpc, peerSet>>
              ELSE /\ hpc' = [hpc EXCEPT ![p] = "done"]
                   /\ peerSet' = removePeer(peerSet, p)
    /\ UNCHANGED <<chainVars, loopVars, workerVars, lockVars, auxVars, pm>>

\* ReadMsg fails (the connection is gone): handleMsg returns its error.
HandleReadErr(p) ==
    /\ hpc[p] = "loop"
    /\ hpc' = [hpc EXCEPT ![p] = "done"]
    /\ peerSet' = removePeer(peerSet, p)
    /\ hlast' = [NoMsg EXCEPT !.peer = p, !.err = "ErrRead"]
    /\ UNCHANGED <<chainVars, loopVars, workerVars, lockVars, auxVars, pm, responseErrors>>

NextLes ==
    \/ \E lightSync \in BOOLEAN : NewProtocolManager(lightSync)
    \/ \E p \in Peers, ok \in BOOLEAN : HandleConnect(p, ok)
    \/ \E p \in Peers, msg \in Msgs : HandleMsg(p, msg)
    \/ \E p \in Peers : HandleReadErr(p)

\* The node of Init, where no ProtocolManager has been made yet.
InitPM == Init /\ config.engine = "dpos"
SpecLes == InitPM /\ [][NextLes]_vars

\* ================================================================= SpecPeer
\* The sessions of SpecLes with the downloader of a light client, which drops
\* a peer it finds useless by the removePeer it was made with.
PeerMsgs == { msg \in Msgs : msg.code \in {"GetBlockHeadersMsg", "StatusMsg", "BlockBodiesMsg"} }

\* The downloader calls removePeer(id) for a registered peer whose handle is
\* in its main loop.
DropPeer(p) ==
    /\ pm.built /\ pm.lightSync
    /\ p \in peerSet
    /\ peerSet' = removePeer(peerSet, p)
    /\ UNCHANGED <<chainVars, loopVars, workerVars, lockVars, auxVars, pm, hpc,
                   responseErrors, hlast>>

NextPeer ==
    \/ \E lightSync \in BOOLEAN : NewProtocolManager(lightSync)
    \/ \E p \in Peers, ok \in BOOLEAN : HandleConnect(p, ok)
    \/ \E p \in Peers, msg \in PeerMsgs : HandleMsg(p, msg)
    \/ \E p \in Peers : HandleReadErr(p)
    \/ \E p \in Peers : DropPeer(p)

SpecPeer == InitPM /\ [][NextPeer]_vars

\* ================================================================= SpecResp
\* The responses of a les peer and where handleMsg sends their payload: the
\* light fetcher, the downloader or the retriever.
RespCodes == {"BlockHeadersMsg", "TxStatusMsg"} \cup DeliverCodes
\* The request IDs in flight; genReqID draws one that is not in use.
InFlight == fetcherReqs \cup retrReqs \cup UNION { dlReqs[p] : p \in Peers }

\* The light fetcher asks a registered peer for a header under a new ID and
\* keeps the ID among its requested ones.
FetcherRequest(p, id) ==
    /\ pm.built /\ pm.lightSync
    /\ p \in peerSet
    /\ id \notin InFlight
    /\ fetcherReqs' = fetcherReqs \cup {id}
    /\ UNCHANGED <<chainVars, loopVars, workerVars, lockVars, calcVars, lesVars, nodeVars, sh, importVars, stopVars, mintVars, dl, fetcher,
                   dlReqs, retrReqs, rlast, sync>>

\* The retriever sends a request under a new ID and keeps it in sentReqs.
RetrieverRequest(p, id) ==
    /\ pm.built /\ pm.odr
    /\ p \in peerSet
    /\ id \notin InFlight
    /\ retrReqs' = retrReqs \cup {id}
    /\ UNCHANGED <<chainVars, loopVars, workerVars, lockVars, calcVars, lesVars, nodeVars, sh, importVars, stopVars, mintVars, dl, fetcher,
                   fetcherReqs, dlReqs, rlast, sync>>

\* RequestHeadersByHash with the error of a closed channel swallowed.
RequestHeadersNoError(reqs, p, reqID, sent) ==
    [err |-> "nil", reqs |-> IF sent THEN [reqs EXCEPT ![p] = @ \cup {reqID}] ELSE reqs]

\* peerConnection.RequestHeadersByHash: the request goes out under reqID when
\* the request distributor sends on the channel queue returns (sent), and
\* the call returns ErrNoPeers when the distributor closes it without sending.
RequestHeadersByHash(reqs, p, reqID, sent) ==
    [err |-> IF sent THEN "nil" ELSE "ErrNoPeers",
     reqs |-> IF sent THEN [reqs EXCEPT ![p] = @ \cup {reqID}] ELSE reqs]

\* peerConnection.RequestHeadersByNumber: the same with a number as origin.
RequestHeadersByNumber(reqs, p, reqID, sent) ==
    [err |-> IF sent THEN "nil" ELSE "ErrNoPeers",
     reqs |-> IF sent THEN [reqs EXCEPT ![p] = @ \cup {reqID}] ELSE reqs]

\* The branch of handleMsg for a response that decoded: the consumer its
\* payload goes to and the request that consumer takes it for. A BlockHeaders
\* response the fetcher has not requested goes to downloader.DeliverHeaders
\* with the peer's id and without the request ID: dreq is the request of
\* that peer the downloader takes it for (0: it has none).
respond(code, reqID, dreq) ==
    IF code = "BlockHeadersMsg"
    THEN IF reqID \in fetcherReqs
         THEN [to |-> "fetcher", served |-> reqID]
         ELSE [to |-> "downloader", served |-> dreq]
    ELSE IF code = "TxStatusMsg"
    THEN [to |-> "none", served |-> 0]
    ELSE [to |-> "retriever", served |-> IF reqID \in retrReqs THEN reqID ELSE 0]

\* One round of handle's main loop on a response with request ID reqID:
\* retriever.deliver fails on an ID that is not in sentReqs.
HandleResponse(p, code, reqID, dreq) ==
    /\ hpc[p] = "loop"
    /\ dreq \in IF dlReqs[p] = {} THEN {0} ELSE dlReqs[p]
    /\ LET io == IF code \in DeliverCodes /\ reqID \notin retrReqs THEN "err" ELSE "nil"
           r == handleMsg(pm, responseErrors[p], Msg(code, 1, TRUE, 0, 0, io))
           d == IF "GotReply" \in r.did THEN respond(code, reqID, dreq)
                ELSE [to |-> "none", served |-> 0]
       IN  /\ responseErrors' = [responseErrors EXCEPT ![p] = r.responseErrors]
           /\ rlast' = [reqID |-> reqID, to |-> d.to, served |-> d.served]
           /\ fetcherReqs' = IF d.to = "fetcher" THEN fetcherReqs \ {d.served}
                             ELSE fetcherReqs
           /\ retrReqs' = IF d.to = "retriever" THEN retrReqs \ {d.served} ELSE retrReqs
           /\ dlReqs' = IF d.to = "downloader"
                        THEN [dlReqs EXCEPT ![p] = @ \ {d.served}] ELSE dlReqs
           /\ sync' = IF d.to = "downloader" /\ d.served # 0 /\ sync.state = "waiting"
                         /\ sync.cur = p
                      THEN [sync EXCEPT !.state = "idle", !.cur = "none", !.err = "nil"]
                      ELSE sync
           /\ IF r.err = "nil"
              THEN UNCHANGED <<hpc, peerSet>>
              ELSE /\ hpc' = [hpc EXCEPT ![p] = "done"]
                   /\ peerSet' = removePeer(peerSet, p)
    /\ UNCHANGED <<chainVars, loopVars, workerVars, lockVars, calcVars, nodeVars, sh, importVars, stopVars, mintVars, dl, fetcher,
                   pm, hlast>>

\* The downloader starts a header sync: no peer has failed yet.
SyncStart ==
    /\ pm.built /\ pm.lightSync
    /\ sync.state = "idle"
    /\ sync' = [NoSync EXCEPT !.state = "picking"]
    /\ UNCHANGED <<chainVars, loopVars, workerVars, lockVars, calcVars, lesVars, nodeVars, sh, importVars, stopVars, mintVars, dl, fetcher,
                   fetcherReqs, dlReqs, retrReqs, rlast>>

\* The sync asks the best peer that has not failed for a header batch, by
\* hash or by number; a peer the request could not be sent to has failed.
SyncRequest(p, reqID, sent, byHash) ==
    /\ sync.state = "picking"
    /\ p \in peerSet \ sync.failed
    /\ reqID \notin InFlight
    /\ LET r == IF byHash THEN RequestHeadersByHash(dlReqs, p, reqID, sent)
                ELSE RequestHeadersByNumber(dlReqs, p, reqID, sent)
       IN  /\ dlReqs' = r.reqs
           /\ sync' = IF r.err = "nil"
                      THEN [sync EXCEPT !.state = "waiting", !.cur = p,
                                        !.reqErr = r.err, !.sent = sent]
                      ELSE [sync EXCEPT !.failed = @ \cup {p},
                                        !.reqErr = r.err, !.sent = sent]
    /\ UNCHANGED <<chainVars, loopVars, workerVars, lockVars, calcVars, lesVars, nodeVars, sh, importVars, stopVars, mintVars, dl, fetcher,
                   fetcherReqs, retrReqs, rlast>>

\* The deadline of the outstanding request passes: the peer has failed for
\* this sync and the request is given up.
SyncTimeout ==
    /\ sync.state = "waiting"
    /\ sync' = [sync EXCEPT !.state = "picking", !.cur = "none",
                            !.failed = @ \cup {sync.cur}]
    /\ dlReqs' = [dlReqs EXCEPT ![sync.cur] = {}]
    /\ UNCHANGED <<chainVars, loopVars, workerVars, lockVars, calcVars, lesVars, nodeVars, sh, importVars, stopVars, mintVars, dl, fetcher,
                   fetcherReqs, retrReqs, rlast>>

\* No peer is left that can take the request: the sync returns errNoPeers.
SyncNoPeers ==
    /\ sync.state = "picking"
    /\ peerSet \ sync.failed = {}
    /\ sync' = [sync EXCEPT !.state = "idle", !.err = "errNoPeers"]
    /\ UNCHANGED <<chainVars, loopVars, workerVars, lockVars, calcVars, lesVars, nodeVars, sh, importVars, stopVars, mintVars, dl, fetcher,
                   fetcherReqs, dlReqs, retrReqs, rlast>>

\* The requests of the fetcher, the retriever and a sync, and the responses.
NextResp ==
    \/ \E lightSync \in BOOLEAN : NewProtocolManager(lightSync)
    \/ \E p \in Peers, ok \in BOOLEAN : HandleConnect(p, ok)
    \/ \E p \in Peers, id \in ReqIDs : FetcherRequest(p, id)
    \/ \E p \in Peers, id \in ReqIDs : RetrieverRequest(p, id)
    \/ \E p \in Peers, code \in RespCodes, id \in ReqIDs, dreq \in ReqIDs \cup {0} :
           HandleResponse(p, code, id, dreq)
    \/ SyncStart
    \/ \E p \in Peers, id \in ReqIDs, byHash \in BOOLEAN :
           SyncRequest(p, id, TRUE, byHash)

SpecResp == InitPM /\ [][NextResp]_vars

\* ================================================================= SpecSync
\* A header sync of the downloader with its timeouts, the peers that leave
\* and the BlockHeaders responses.
NextSync ==
    \/ \E lightSync \in BOOLEAN : NewProtocolManager(lightSync)
    \/ \E p \in Peers, ok \in BOOLEAN : HandleConnect(p, ok)
    \/ \E p \in Peers : HandleReadErr(p)
    \/ \E p \in Peers, id \in ReqIDs, dreq \in ReqIDs \cup {0} :
           HandleResponse(p, "BlockHeadersMsg", id, dreq)
    \/ SyncStart
    \/ \E p \in Peers, id \in ReqIDs, sent \in BOOLEAN, byHash \in BOOLEAN :
           SyncRequest(p, id, sent, byHash)
    \/ SyncTimeout
    \/ SyncNoPeers

SpecSync == InitPM /\ [][NextSync]_vars

\* ============================================================ properties, Spec
\* The Results on recv for the Work at address a.
ResultsOf(a) == { i \in DOMAIN recv : recv[i].Work = a }

\* C1 as stated: when the quit channel of an attempt's Seal is closed before
\* Seal returns, no Result for that Work is sent on recv and the Work's block
\* is never written.
C1_NoResultSent ==
    \A a \in cancelled : ResultsOf(a) = {} /\ a \notin DOMAIN writeStat

\* C1, amended: when the quit channel of an attempt's Seal is closed before
\* Seal returns, any Result sent on recv for that Work carries no block, and
\* WriteBlockAndState is never called for it: its block is never in the store.
C1_CancelledNeverWritten ==
    \A a \in cancelled :
        /\ \A i \in ResultsOf(a) : recv[i].Block = NoBlock
        /\ a \notin DOMAIN writeStat
        /\ a \notin DOMAIN store

\* A cancelled attempt whose (empty) Result is waiting on recv.
C1_Witness == \E a \in cancelled : ResultsOf(a) # {}

\* C2: every Work built by createNewWork has header.ParentHash equal to the hash
\* of the chain head read by that call and header.Number equal to that head's
\* number plus one, and so has every block of the worker that was written.
C2_Linked ==
    /\ \A a \in DOMAIN works :
          /\ works[a].header.ParentHash = works[a].parent
          /\ works[a].parent \in DOMAIN store
          /\ works[a].header.Number = store[works[a].parent].Number + 1
    /\ \A h \in DOMAIN store :
          store[h].mined =>
              /\ store[h].ParentHash \in DOMAIN store
              /\ store[h].Number = store[store[h].ParentHash].Number + 1
C2_Built ==
    mpc = "create" /\ current' # current =>
        /\ works'[current'].header.ParentHash = head
        /\ works'[current'].header.Number = store[head].Number + 1
C2_ParentAndNumber == []C2_Linked /\ [][C2_Built]_vars

\* A block of the worker that was written on top of an imported block.
C2_Witness ==
    \E h \in DOMAIN store :
        store[h].mined /\ store[h].Number = 2 /\ ~store[store[h].ParentHash].mined

\* C3: an attempt gets past CheckValidator only when it returned nil; a tick on
\* which CheckValidator returns an error builds no Work, seals nothing, sends
\* nothing on recv and leaves mintLoop waiting for the next tick.
C3_PastCheck == mpc \in {"create", "seal", "sealing"} => mLog = "none"
C3_FailedTick ==
    mpc = "select" /\ mLog' # mLog /\ mLog' # "none" =>
        /\ mpc' = "select"
        /\ UNCHANGED <<works, current, nextHash, mwork, sealQ, recv, store, head>>
C3_TickGated == []C3_PastCheck /\ [][C3_FailedTick]_vars

\* A tick that failed the check, with the miner started.
C3_Witness ==
    /\ mLog = CheckLog("ErrInvalidBlockValidator")
    /\ mpc = "select"
    /\ mining = 1

\* C4 as stated: when update() has handled a chain-head change that came after
\* an attempt's Work was built, the quit channel the attempt's Seal was given is
\* closed.
C4_HeadChangeCancels ==
    (/\ mpc = "sealing"
     /\ works[mwork].parent # head
     /\ chainHeadCh = <<>>
     /\ upc = "select") => sealQ \in closed

\* The events posted for block h.
EventsOf(h) == { e \in posted : e[2] = h }

\* C5: for every block wait() passes to WriteBlockAndState: on an error no
\* event is posted and the block is not inserted into unconfirmed; on success
\* a NewMinedBlockEvent and a ChainEvent are posted, and a ChainHeadEvent is
\* posted if and only if the status is CanonStatTy.
C5_WaitEvents ==
    \A h \in DOMAIN writeStat :
        IF writeStat[h] = "err"
        THEN EventsOf(h) = {} /\ h \notin unconfirmed /\ h \notin DOMAIN store
        ELSE /\ <<"NewMinedBlockEvent", h>> \in posted
             /\ <<"ChainEvent", h>> \in posted
             /\ <<"ChainHeadEvent", h>> \in posted <=> writeStat[h] = "CanonStatTy"

\* A block written as a side block.
C5_Witness == \E h \in DOMAIN writeStat : writeStat[h] = "SideStatTy"

\* C6: an error in a mint attempt (CheckValidator, createNewWork or Seal) hands
\* nothing to the commit path, stops neither the worker nor the process and
\* leaves mintLoop at its select, where the next eligible tick starts a fresh
\* attempt from the head the chain has then.
C6_Retry ==
    (/\ mLog # "none"
     /\ mpc = "select"
     /\ config.engine = "dpos"
     /\ ~crashed
     /\ nextHash <= MaxBlocks) => ENABLED Tick("nil")
C6_Abandon ==
    mLog' # mLog /\ mLog' # "none" =>
        /\ mpc' = "select"
        /\ mwork' = NoWork
        /\ posted' \ posted \subseteq {<<"PendingStateEvent", NoBlock>>}
        /\ UNCHANGED <<recv, store, head, writeStat, unconfirmed, mining, crashed>>
C6_ErrorsNotFatal == []C6_Retry /\ [][C6_Abandon]_vars

\* A failed Seal, with mintLoop back at its select.
C6_Witness ==
    /\ mLog = "error: Failed to seal the block"
    /\ mpc = "select"
    /\ ~crashed

\* ========================================================== properties, SpecTx
InLoop == tpc \in {"create", "update"}
\* A step that is one iteration of the loop of commitTransactions.
IterStep == InLoop /\ txq' # txq
Range(seq) == { seq[i] : i \in DOMAIN seq }

\* C7 as stated: over all the batches applied to a Work (the batch of
\* createNewWork and the batches of update()) the remaining gas is
\* header.GasLimit minus the gas used by the transactions applied to the Work
\* and is never negative: the gas the Work has used never exceeds its gas limit.
C7_GasWithinLimit ==
    \A a \in DOMAIN works : SumGas(works[a].txs) <= works[a].header.GasLimit

\* C8: when ApplyTransaction returns an error, the iteration leaves the Work's
\* state, dposContext, txs, receipts and tcount as they were before it, and the
\* loop goes on.
C8_Step ==
    IterStep /\ txErr' \notin {"nil", "skip"} =>
        /\ works'[current].state = works[current].state
        /\ works'[current].dposContext = works[current].dposContext
        /\ works'[current].txs = works[current].txs
        /\ works'[current].receipts = works[current].receipts
        /\ works'[current].tcount = works[current].tcount
        /\ current' = current
        /\ tpc' = tpc
C8_RevertOnError == [][C8_Step]_vars

\* A transaction failed in ApplyTransaction after another one had been applied.
C8_Witness ==
    /\ InLoop
    /\ txErr = "ErrOther"
    /\ works[current].txs # <<>>

\* C9: over the batch of createNewWork and the batches of update() on the same
\* Work, no transaction is twice in Work.txs, and every application adds one
\* entry to txs and one to receipts.
C9_AtMostOnce ==
    \A a \in DOMAIN works :
        LET w == works[a] IN
        /\ \A i, j \in DOMAIN w.txs : w.txs[i] = w.txs[j] => i = j
        /\ Len(w.txs) = w.tcount
        /\ Len(w.receipts) = w.tcount
        /\ \A i \in DOMAIN w.txs : w.receipts[i].tx = w.txs[i]

\* A transaction of the Work announced again and turned down.
C9_Witness ==
    /\ tpc = "update"
    /\ txErr = "ErrNonceTooLow"
    /\ txLast \in Range(works[current].txs)

\* C10: when applying a sender's head transaction returns NonceTooHigh, the
\* sender is popped: none of the sender's transactions is left in the queue,
\* nothing is added to the Work, the other senders' queues are as before and
\* the loop goes on.
C10_Step ==
    IterStep /\ txErr' = "ErrNonceTooHigh" =>
        /\ txq'[txLast'.from] = <<>>
        /\ \A s \in Senders \ {txLast'.from} : txq'[s] = txq[s]
        /\ works'[current].txs = works[current].txs
        /\ works'[current].tcount = works[current].tcount
        /\ tpc' = tpc
C10_Excluded ==
    InLoop /\ txErr = "ErrNonceTooHigh" =>
        /\ txq[txLast.from] = <<>>
        /\ txLast \notin Range(works[current].txs)
C10_PopsSender == []C10_Excluded /\ [][C10_Step]_vars

\* A sender with two pending transactions popped while another sender waits.
C10_Witness ==
    /\ tpc = "create"
    /\ txErr = "ErrNonceTooHigh"
    /\ Len(pool[txLast.from]) >= 2
    /\ Live(txq) # {}

\* C11: when applying a transaction returns GasLimitReached, the transaction
\* is not added to the Work (txs, receipts and tcount are as before) and its
\* sender is popped from the queue of this run; the pool keeps the transaction,
\* and the queue of every later createNewWork is made from the pool again.
C11_Step ==
    IterStep /\ txErr' = "ErrGasLimitReached" =>
        /\ works'[current].txs = works[current].txs
        /\ works'[current].receipts = works[current].receipts
        /\ works'[current].tcount = works[current].tcount
        /\ txq'[txLast'.from] = <<>>
        /\ pool' = pool
        /\ txLast' \in Range(pool'[txLast'.from])
C11_Offered ==
    tpc = "idle" /\ tpc' = "create" => txq' = NewTransactionsByPriceAndNonce(pool')
C12_Step == IterStep /\ gasHit # {} => txErr' # "nil"
C12_StopsPulling == [][C12_Step]_vars

\* C12, amended: once an application in a run has returned GasLimitReached for
\* a sender's transaction, no transaction of that sender is pulled again in
\* that run; the queues of the other senders are kept and their transactions
\* are still pulled.
C12_SenderStep == IterStep => txLast'.from \notin gasHit
C12_OthersStep ==
    IterStep /\ txErr' = "ErrGasLimitReached" =>
        \A s \in Senders \ {txLast'.from} : txq'[s] = txq[s]
C12_StopsSenderOnly == [][C12_SenderStep]_vars /\ [][C12_OthersStep]_vars

\* A transaction applied after another sender's transaction did not fit.
C12_Witness ==
    /\ InLoop
    /\ gasHit # {}
    /\ txErr = "nil"
    /\ txLast.from \notin gasHit

\* The iteration on the head of txLast'.from shifted that sender's queue and
\* left the other senders' queues and the transactions of the Work alone.
ShiftedOnly ==
    /\ txq'[txLast'.from] = Tail(txq[txLast'.from])
    /\ \A s \in Senders \ {txLast'.from} : txq'[s] = txq[s]
    /\ works'[current].txs = works[current].txs
    /\ tpc' = tpc

\* C13: when applying a transaction returns NonceTooLow, only that transaction
\* is skipped: its sender's queue is shifted, not popped, so the sender's
\* next transaction is still offered in the same run.
C13_Step == IterStep /\ txErr' = "ErrNonceTooLow" => ShiftedOnly
C13_ShiftsTooLow == [][C13_Step]_vars

\* A transaction below the account's nonce was skipped and the sender's next
\* transaction, which has the account's nonce, is at the head of its queue.
C13_Witness ==
    /\ tpc = "create"
    /\ txErr = "ErrNonceTooLow"
    /\ txq[txLast.from] # <<>>
    /\ Head(txq[txLast.from]).nonce = works[current].state[txLast.from]

\* C14: an error of no known kind drops only the transaction that got it
\* (shift) and the run goes on: commitTransactions ends only when no
\* transaction is left in the queue, and createNewWork then finalizes a block
\* that holds the transactions that were applied.
C14_Step == IterStep /\ txErr' = "ErrOther" => ShiftedOnly
C14_RunEnds == InLoop /\ tpc' = "idle" => Live(txq) = {}
C14_Finalized ==
    tpc = "create" /\ tpc' = "idle" =>
        /\ works'[current].Block # NoBlock
        /\ works'[current].blockTxs = works[current].txs
C14_OtherErrorContained ==
    [][C14_Step]_vars /\ [][C14_RunEnds]_vars /\ [][C14_Finalized]_vars

\* A block finalized with a transaction in it after the last transaction of
\* the run had failed with an error of no known kind.
C14_Witness ==
    /\ tpc = "idle"
    /\ txErr = "ErrOther"
    /\ works[current].Block # NoBlock
    /\ works[current].blockTxs # <<>>

\* update takes a TxPreEvent off worker.txCh (no other step shortens it).
UpdateTxStep == txCh # <<>> /\ txCh' = Tail(txCh)

\* C15: update applies a TxPreEvent to the current Work exactly when mining is
\* 0 as the event is handled: the Work is then what commitTransactions makes of
\* it with that one transaction; with mining 1 the event is consumed and no
\* Work changes (txs, receipts, state, tcount) and no event is posted.
C15_Step ==
    UpdateTxStep =>
        IF mining = 0
        THEN /\ works'[current] \in
                    RunBatch(works[current], NewGasPool(works[current]),
                             NewTransactionsByPriceAndNonce(
                                 [EmptyQueue EXCEPT ![Head(txCh).from] = <<Head(txCh)>>]))
             /\ \A a \in DOMAIN works \ {current} : works'[a] = works[a]
        ELSE works' = works /\ posted' = posted
C15_AppliedIffNotMining == [][C15_Step]_vars

\* The event was applied: the current Work, finalized by createNewWork without
\* the transaction, holds it now, in a miner that is not mining.
C15_Witness ==
    /\ mining = 0
    /\ txCh = <<>>
    /\ works[current].Block # NoBlock
    /\ works[current].blockTxs = <<>>
    /\ works[current].txs # <<>>
    /\ works[current].tcount = 1

\* ======================================================= properties, SpecLock
\* C16 as stated: every read or write of a Work that is or was worker.current
\* happens while the goroutine holds currentMu, and every read or write of
\* coinbase and extra while it holds mu.
C16_LockedAccess ==
    \A t \in Threads : \A a \in Accesses(t) : lk[Guard(a.obj)] = t

\* Two goroutines are never at the same field, or at the fields of the same
\* Work, with one of them writing.
C16_NoDataRace ==
    \A t, u \in Threads : \A a \in Accesses(t), b \in Accesses(u) :
        t # u /\ a.obj = b.obj /\ a.isCurrent = b.isCurrent => a.mode = "r" /\ b.mode = "r"

\* C17 as stated: no goroutine holds mu, uncleMu or currentMu while it sleeps,
\* so that no goroutine is ever at a Lock of a mutex whose holder sleeps.
C17_NoLockHeldAsleep ==
    /\ \A t \in Threads : Sleeping(t) => \A m \in Mutexes : lk[m] # t
    /\ \A t \in Threads : BlockedOn(t) # NoHolder => ~Sleeping(BlockedOn(t))

\* ======================================================== properties, SpecLes
\* handleMsg has handled a message (hlast' tells which, and what was done);
\* the same message handled again with the same result shows in the counter
\* or not at all.
Handled == hlast'.code # "none" /\ (hlast' # hlast \/ responseErrors' # responseErrors)

\* What reject(count, max) stands for: the peer has no flow-control client,
\* or count is above the maximum of the message, or the cost, capped at
\* BufLimit, is above the buffer value AcceptRequest returned.
Rejectable(m) ==
    LET cost == fcCosts(m.code).baseCost + m.cnt * fcCosts(m.code).reqCost
        capped == IF cost > BufLimit THEN BufLimit ELSE cost
    IN  ~pm.server \/ m.cnt > MaxOf(m.code) \/ capped > m.bufValue

\* handleMsg gets as far as its call of reject: the message is not too large,
\* decodes, and for the transaction messages the manager has a pool.
ReachesReject(m) ==
    /\ m.size <= ProtocolMaxMsgSize
    /\ m.decodes
    /\ m.code \in {"SendTxMsg", "SendTxV2Msg", "GetTxStatusMsg"} => pm.txpool

\* C18 as stated: a request-type message (one whose count can be told: not
\* too large, with a payload that decodes) is served only if reject(count,
\* max) is false, and otherwise handleMsg returns ErrRequestRejected and has
\* done none of the work.
C18_Step ==
    /\ Handled
    /\ hlast'.code \in reqList
    /\ hlast'.decodes
    /\ hlast'.size <= ProtocolMaxMsgSize
    => IF Rejectable(hlast')
       THEN hlast'.err = "ErrRequestRejected" /\ hlast'.did = {}
       ELSE TRUE
C18_RejectedElse == [][C18_Step]_vars

\* C18, amended: a request-type message is served only if reject(count, max)
\* is false; when handleMsg reaches its call of reject and reject is true it
\* returns ErrRequestRejected; when it returns before that call (message too
\* large, payload that does not decode, GetTxStatus without a pool) it returns
\* that check's error; in all these cases none of the work is done.
C18_AmendedStep ==
    Handled /\ hlast'.code \in reqList =>
        /\ hlast'.did # {} => ~Rejectable(hlast') /\ ReachesReject(hlast')
        /\ Rejectable(hlast') \/ ~ReachesReject(hlast') =>
               hlast'.did = {} /\ hlast'.err # "nil"
        /\ Rejectable(hlast') /\ ReachesReject(hlast') => hlast'.err = "ErrRequestRejected"
        /\ ~Rejectable(hlast') /\ ReachesReject(hlast') =>
               "RequestProcessed" \in hlast'.did
C18_ServedOnlyIfAccepted == [][C18_AmendedStep]_vars

\* A header request for the maximum number of headers was served: its cost,
\* above BufLimit, was capped at BufLimit, the value of the peer's buffer.
C18_Witness ==
    /\ hlast.code = "GetBlockHeadersMsg"
    /\ hlast.cnt = MaxHeaderFetch
    /\ hlast.bufValue = BufLimit
    /\ hlast.did = {"gather", "RequestProcessed", "reply"}

\* C19: an unknown code, a payload that does not decode, a message larger
\* than ProtocolMaxMsgSize and a StatusMsg each make handleMsg return an error:
\* the peer's handle loop ends and the peer is removed from the peer set; the
\* other peers' loops, registrations and counters are as before.
C19_Step ==
    Handled /\ ( \/ hlast'.code \notin KnownCodes
                 \/ ~hlast'.decodes
                 \/ hlast'.size > ProtocolMaxMsgSize
                 \/ hlast'.code = "StatusMsg" ) =>
        /\ hlast'.err # "nil"
        /\ hpc[hlast'.peer] = "loop" /\ hpc'[hlast'.peer] = "done"
        /\ hlast'.peer \notin peerSet'
        /\ \A q \in Peers \ {hlast'.peer} :
              /\ hpc'[q] = hpc[q]
              /\ (q \in peerSet') = (q \in peerSet)
              /\ responseErrors'[q] = responseErrors[q]
C19_ProtocolErrorDropsPeer == [][C19_Step]_vars

\* A message too large that would otherwise have been served ended its
\* peer's session while the other peer stays registered and in its loop.
C19_Witness ==
    /\ hlast.err = "ErrMsgTooLarge"
    /\ hlast.code = "BlockHeadersMsg"
    /\ pm.lightSync
    /\ hlast.peer \notin peerSet
    /\ hpc[hlast.peer] = "done"
    /\ \E q \in Peers \ {hlast.peer} : q \in peerSet /\ hpc[q] = "loop"

\* C20: a failed delivery adds one to the peer's responseErrors, and handleMsg
\* returns the error exactly when the counter is then above
\* maxResponseErrors; nothing else changes the counter, so the first failure
\* never ends the session and the peer is dropped for failed deliveries at
\* its (maxResponseErrors + 1)-th failure.
C20_Step ==
    /\ Handled /\ "deliver" \in hlast'.did /\ hlast'.deliver # "nil" =>
          /\ responseErrors'[hlast'.peer] = responseErrors[hlast'.peer] + 1
          /\ (hlast'.err # "nil") = (responseErrors'[hlast'.peer] > maxResponseErrors)
          /\ responseErrors[hlast'.peer] = 0 => hlast'.err = "nil"
    /\ \A p \in Peers :
          responseErrors'[p] # responseErrors[p] =>
              /\ Handled /\ hlast'.peer = p
              /\ "deliver" \in hlast'.did /\ hlast'.deliver # "nil"
C20_Bounded ==
    \A p \in Peers :
        /\ responseErrors[p] <= maxResponseErrors + 1
        /\ responseErrors[p] = maxResponseErrors + 1 => hpc[p] = "done"
C20_DroppedAfterThreshold == [][C20_Step]_vars /\ []C20_Bounded

\* A peer dropped at its (maxResponseErrors + 1)-th failed delivery.
C20_Witness ==
    /\ hlast.peer \in Peers
    /\ responseErrors[hlast.peer] = maxResponseErrors + 1
    /\ hpc[hlast.peer] = "done"
    /\ hlast.did = {"GotReply", "deliver"}
    /\ hlast.err = "err"

\* ================================================================= SpecNode
\* Ethereum.Validator: the configured validator, else the first account of
\* the first wallet, else an error.
Validator(e, ws) ==
    IF e.validator # ZeroAddr THEN [addr |-> e.validator, err |-> "nil"]
    ELSE IF Len(ws) > 0 /\ Len(ws[1]) > 0 THEN [addr |-> ws[1][1], err |-> "nil"]
    ELSE [addr |-> ZeroAddr, err |-> "validator address must be explicitly specified"]

\* Ethereum.Coinbase: the configured coinbase, else the first account of the
\* first wallet, else an error.
Coinbase(e, ws) ==
    IF e.coinbase # ZeroAddr THEN [addr |-> e.coinbase, err |-> "nil"]
    ELSE IF Len(ws) > 0 /\ Len(ws[1]) > 0 THEN [addr |-> ws[1][1], err |-> "nil"]
    ELSE [addr |-> ZeroAddr, err |-> "coinbase address must be explicitly specified"]

\* accountManager.Find: the index of a wallet that holds the account, 0 with
\* an error when no wallet does.
Find(ws, a) ==
    LET holders == { i \in DOMAIN ws : \E j \in DOMAIN ws[i] : ws[i][j] = a }
    IN  IF holders = {} THEN 0 ELSE CHOOSE i \in holders : \A k \in holders : i <= k

\* StartMining with the validator's wallet not looked up.
StartMiningNoSigner(e, ws, engine, local) ==
    LET v == Validator(e, ws)
        cb == Coinbase(e, ws)
    IN  IF v.err # "nil" THEN [err |-> "validator missing", eth |-> e]
        ELSE IF cb.err # "nil" THEN [err |-> "coinbase missing", eth |-> e]
        ELSE [err |-> "nil",
              eth |-> [e EXCEPT !.signer = IF engine = "dpos" THEN v.addr ELSE @,
                                !.acceptTxs = IF local THEN 1 ELSE @,
                                !.minerStarts = Append(@, cb.addr)]]

\* Ethereum.StartMining(local): the error it returns and the backend after;
\* minerStarts lists the coinbases of the miner.Start calls it has spawned.
StartMining(e, ws, engine, local) ==
    LET v == Validator(e, ws)
        cb == Coinbase(e, ws)
    IN  IF v.err # "nil" THEN [err |-> "validator missing", eth |-> e]
        ELSE IF cb.err # "nil" THEN [err |-> "coinbase missing", eth |-> e]
        ELSE IF engine = "dpos" /\ Find(ws, v.addr) = 0
        THEN [err |-> "signer missing", eth |-> e]
        ELSE [err |-> "nil",
              eth |-> [e EXCEPT !.signer = IF engine = "dpos" THEN v.addr ELSE @,
                                !.acceptTxs = IF local THEN 1 ELSE @,
                                !.minerStarts = Append(@, cb.addr)]]

\* SetValidator and SetCoinbase from the console or the command line.
SetValidator(a) ==
    /\ eth.validator # a
    /\ eth' = [eth EXCEPT !.validator = a]
    /\ UNCHANGED <<chainVars, loopVars, workerVars, lockVars, calcVars, lesVars, respVars, sh, importVars, stopVars, mintVars, dl, fetcher,
                   wallets, smRet>>

SetCoinbase(a) ==
    /\ eth.coinbase # a
    /\ eth' = [eth EXCEPT !.coinbase = a]
    /\ UNCHANGED <<chainVars, loopVars, workerVars, lockVars, calcVars, lesVars, respVars, sh, importVars, stopVars, mintVars, dl, fetcher,
                   wallets, smRet>>

\* A wallet arrives at the account manager, with no account or with one.
WalletArrive(w) ==
    /\ Len(wallets) < MaxWallets
    /\ wallets' = Append(wallets, w)
    /\ UNCHANGED <<chainVars, loopVars, workerVars, lockVars, calcVars, lesVars, respVars, sh, importVars, stopVars, mintVars, dl, fetcher,
                   eth, smRet>>

\* A call of StartMining.
CallStartMining(local) ==
    /\ smRet.n < MaxStartCalls
    /\ LET r == StartMining(eth, wallets, config.engine, local)
       IN  /\ eth' = r.eth
           /\ smRet' = [n |-> smRet.n + 1, local |-> local, err |-> r.err]
    /\ UNCHANGED <<chainVars, loopVars, workerVars, lockVars, calcVars, lesVars, respVars, sh, importVars, stopVars, mintVars, dl, fetcher,
                   wallets>>

NextNode ==
    \/ \E a \in Addrs \cup {ZeroAddr} : SetValidator(a)
    \/ \E a \in Addrs \cup {ZeroAddr} : SetCoinbase(a)
    \/ \E w \in {<<>>} \cup { <<a>> : a \in Addrs } : WalletArrive(w)
    \/ \E local \in BOOLEAN : CallStartMining(local)

SpecNode == InitPM /\ [][NextNode]_vars

\* ============================================================== SpecSetHead
\* The block with number n on the chain that ends in the block with hash h.
RECURSIVE AncestorAt(_, _, _)
AncestorAt(st, h, n) ==
    IF st[h].Number <= n THEN h ELSE AncestorAt(st, st[h].ParentHash, n)

\* downloader.Cancel: the sync in progress stops and its requests are given
\* up; what arrives for them later is not inserted.
Cancel(sy) == [sy EXCEPT !.state = "idle", !.cur = "none", !.err = "errCancelled"]

\* SetHead with the head moved before the sync is cancelled.
SetHeadMoveFirst(pc) == IF pc = "idle" THEN "SetHead" ELSE "Cancel"

\* The call SetHead makes at each of its two positions: downloader.Cancel()
\* first, blockchain.SetHead(number) after it has returned.
SetHeadCall(pc) == IF pc = "idle" THEN "Cancel" ELSE "SetHead"

\* One of the two calls of EthApiBackend.SetHead(number) and
\* LesApiBackend.SetHead(number).
SetHead(number) ==
    /\ ~crashed
    /\ pm.built /\ pm.lightSync
    /\ IF sh.pc = "idle" THEN sh.n < MaxSetHeads ELSE number = sh.number
    /\ sh' = IF sh.pc = "idle"
             THEN [pc |-> "called", number |-> number, n |-> sh.n + 1,
                   wasSyncing |-> sync.state # "idle"]
             ELSE [sh EXCEPT !.pc = "idle"]
    /\ IF SetHeadCall(sh.pc) = "Cancel"
       THEN /\ sync' = Cancel(sync)
            /\ dlReqs' = [p \in Peers |-> {}]
            /\ UNCHANGED head
       ELSE /\ head' = AncestorAt(store, head, number)
            /\ UNCHANGED <<sync, dlReqs>>
    /\ UNCHANGED <<config, pool, store, nextHash, works, current, posted, loopVars,
                   workerVars, lockVars, calcVars, lesVars, nodeVars, importVars, stopVars,
                   mintVars, dl, fetcher, fetcherReqs, retrReqs, rlast>>

\* A chain that grows, a started miner, peers, header syncs and SetHead.
NextSetHead ==
    \/ Start
    \/ Import
    \/ NewProtocolManager(TRUE)
    \/ \E p \in Peers, ok \in BOOLEAN : HandleConnect(p, ok)
    \/ SyncStart
    \/ \E p \in Peers, id \in ReqIDs : SyncRequest(p, id, TRUE, FALSE)
    \/ \E number \in 0 .. MaxBlocks : SetHead(number)

SpecSetHead == InitPM /\ [][NextSetHead]_vars

\* =============================================================== SpecImport
\* The blocks of one chain, named by their number; a block's parent is the
\* block before it. A file is a list of blocks, in any order and with
\* repetitions.
FileBlocks == 1 .. MaxFileBlocks
Files == UNION { [1 .. k -> FileBlocks] : k \in 0 .. MaxFileBlocks }
\* chain.HasBlock(hash, number)
HasBlock(db, b) == \E i \in DOMAIN db : db[i] = b

\* hasAllBlocks that never finds a batch present.
hasAllBlocksNever(db, bs) == FALSE

\* hasAllBlocks(chain, bs)
hasAllBlocks(db, bs) == \A i \in DOMAIN bs : HasBlock(db, bs[i])

\* BlockChain.InsertChain(blocks): a block that is present is passed over, a
\* block whose parent is present is written, and the first block whose
\* parent is unknown ends the call with an error.
RECURSIVE InsertChain(_, _)
InsertChain(db, bs) ==
    IF bs = <<>> THEN [db |-> db, err |-> "nil"]
    ELSE IF HasBlock(db, Head(bs)) THEN InsertChain(db, Tail(bs))
    ELSE IF HasBlock(db, Head(bs) - 1) THEN InsertChain(Append(db, Head(bs)), Tail(bs))
    ELSE [db |-> db, err |-> "unknown ancestor"]

\* The batch loop of ImportChain over the rest of the file: a batch of up to
\* BatchCap blocks is skipped when hasAllBlocks finds it present and is given
\* to InsertChain otherwise; calls lists the InsertChain calls, each with its
\* batch and whether the store lacked one of its blocks.
RECURSIVE importBatches(_, _, _)
importBatches(db, rest, calls) ==
    IF rest = <<>> THEN [db |-> db, ok |-> TRUE, calls |-> calls]
    ELSE LET k == IF Len(rest) < BatchCap THEN Len(rest) ELSE BatchCap
             blocks == SubSeq(rest, 1, k)
             after == SubSeq(rest, k + 1, Len(rest))
         IN  IF hasAllBlocks(db, blocks) THEN importBatches(db, after, calls)
             ELSE LET r == InsertChain(db, blocks)
                      c == Append(calls, [batch |-> blocks,
                                          lacked |-> \E i \in DOMAIN blocks :
                                                         ~HasBlock(db, blocks[i])])
                  IN  IF r.err # "nil" THEN [db |-> r.db, ok |-> FALSE, calls |-> c]
                      ELSE importBatches(r.db, after, c)

\* PrivateAdminAPI.ImportChain(file) on a file that opens and parses.
ImportChain(file) ==
    /\ imp.n < MaxImports
    /\ LET r == importBatches(chainDb, file, <<>>)
       IN  /\ chainDb' = r.db
           /\ imp' = [n |-> imp.n + 1, file |-> file, again |-> imp.n > 0 /\ file = imp.file,
                      calls |-> r.calls, ok |-> r.ok]
    /\ UNCHANGED <<chainVars, loopVars, workerVars, lockVars, calcVars, lesVars, respVars,
                   nodeVars, sh, stopVars, mintVars, dl, fetcher>>

NextImport == \E file \in Files : ImportChain(file)

SpecImport == InitPM /\ [][NextImport]_vars

\* ================================================================= SpecStop
\* The other variables SpecStop leaves alone.
stopFrame == <<chainVars, loopVars, workerVars, lockVars, calcVars, lesVars, respVars, nodeVars,
               sh, importVars, mintVars, dl, fetcher>>

\* ProtocolManager.Start: a light client starts syncer, which receives from
\* newPeerCh and from noMorePeers; a server starts a goroutine that receives
\* from newPeerCh only.
PMStart ==
    /\ pm.built /\ ~stop.started
    /\ stop' = [stop EXCEPT !.started = TRUE,
                        !.receiver = IF pm.lightSync THEN "syncer" ELSE "drain"]
    /\ UNCHANGED <<stopFrame, run>>

\* p2p calls the Run callback for a new session: it comes to its select.
RunCall(p) ==
    /\ pm.built
    /\ run[p] = "idle"
    /\ run' = [run EXCEPT ![p] = "select"]
    /\ UNCHANGED <<stopFrame, stop>>

\* The select of Run sends the peer on newPeerCh: syncer or the server's
\* goroutine receives it.
RunSend(p) ==
    /\ run[p] = "select"
    /\ stop.receiver \in {"syncer", "drain"}
    /\ run' = [run EXCEPT ![p] = "sent"]
    /\ UNCHANGED <<stopFrame, stop>>

\* The select of Run finds quitSync closed: Run returns DiscQuitting.
RunQuit(p) ==
    /\ run[p] = "select"
    /\ stop.quitSync = "closed"
    /\ run' = [run EXCEPT ![p] = "done"]
    /\ UNCHANGED <<stopFrame, stop>>

\* wg.Add(1) after the send on newPeerCh.
RunAdd(p) ==
    /\ run[p] = "sent"
    /\ run' = [run EXCEPT ![p] = "added"]
    /\ stop' = [stop EXCEPT !.wg = @ + 1]
    /\ UNCHANGED stopFrame

\* Run calls handle.
RunHandle(p) ==
    /\ run[p] = "added"
    /\ run' = [run EXCEPT ![p] = "handle"]
    /\ UNCHANGED <<stopFrame, stop>>

\* handle returns (the handshake or the registration fails, the peer goes,
\* or the peer set was closed) and the deferred wg.Done runs.
RunReturn(p) ==
    /\ run[p] = "handle"
    /\ run' = [run EXCEPT ![p] = "done"]
    /\ stop' = [stop EXCEPT !.wg = @ - 1]
    /\ UNCHANGED stopFrame

\* Stop, one call at a time: the send on noMorePeers, which syncer receives
\* before it returns (for a server the receiver is outside handler.go),
\* close(quitSync), peers.Close() and wg.Wait().
StopSend ==
    /\ stop.started /\ stop.spc = "idle"
    /\ stop.receiver \in {"syncer", "drain"}
    /\ stop' = [stop EXCEPT !.spc = "sent",
                        !.receiver = IF @ = "syncer" THEN "none" ELSE @]
    /\ UNCHANGED <<stopFrame, run>>

StopClose ==
    /\ stop.spc = "sent"
    /\ stop' = [stop EXCEPT !.spc = "closed", !.quitSync = "closed"]
    /\ UNCHANGED <<stopFrame, run>>

StopPeersClose ==
    /\ stop.spc = "closed"
    /\ stop' = [stop EXCEPT !.spc = "wait", !.peersClosed = TRUE]
    /\ UNCHANGED <<stopFrame, run>>

StopWait ==
    /\ stop.spc = "wait"
    /\ stop.wg = 0
    /\ stop' = [stop EXCEPT !.spc = "returned"]
    /\ UNCHANGED <<stopFrame, run>>

NextStop ==
    \/ \E lightSync \in BOOLEAN : NewProtocolManager(lightSync)
    \/ PMStart
    \/ \E p \in Peers : RunCall(p)
    \/ \E p \in Peers : RunSend(p)
    \/ \E p \in Peers : RunQuit(p)
    \/ \E p \in Peers : RunAdd(p)
    \/ \E p \in Peers : RunHandle(p)
    \/ \E p \in Peers : RunReturn(p)
    \/ StopSend
    \/ StopClose
    \/ StopPeersClose
    \/ StopWait

SpecStop == InitPM /\ [][NextStop]_vars

\* ================================================================= SpecMint
\* start() and stop() called in any order, from the miner or through the
\* API, with every mintLoop goroutine that start() spawns.
mintFrame == <<chainVars, loopVars, lockVars, calcVars, lesVars, respVars, nodeVars, sh, importVars,
               stopVars, dl, fetcher, chainHeadCh, txCh, mpc, mwork, sealQ, upc, recv, unconfirmed,
               writeStat, histVars>>
\* The mintLoop goroutines that have not returned.
Active == { i \in DOMAIN loops : loops[i] # "returned" }

\* worker.start(): under mu, the mining flag is set and a mintLoop goroutine
\* is spawned, whether the worker mines already or not.
start(m, ls) == [mining |-> 1, loops |-> Append(ls, "select")]

\* A call of worker.start() by the miner.
WorkerStart ==
    /\ ~crashed
    /\ Len(loops) < MaxLoops
    /\ LET r == start(mining, loops)
       IN  /\ mining' = r.mining
           /\ loops' = r.loops
    /\ UNCHANGED <<mintFrame, quitCh, closed, stopperClosed, crashed, apiStart>>

\* A call of worker.stop(): nothing when the worker does not mine, else the
\* flag is cleared and stopper is closed, which panics on a closed stopper.
WorkerStop ==
    /\ ~crashed
    /\ mining = 1
    /\ mining' = 0
    /\ IF stopperClosed THEN crashed' = TRUE /\ UNCHANGED stopperClosed
       ELSE stopperClosed' = TRUE /\ UNCHANGED crashed
    /\ UNCHANGED <<mintFrame, quitCh, closed, loops, apiStart>>

\* PrivateMinerAPI.Start reads IsMining(): it returns when the miner mines
\* and goes on to StartMining when it does not.
ApiIsMining(c) ==
    /\ ~crashed
    /\ apiStart[c] = "idle"
    /\ apiStart' = [apiStart EXCEPT ![c] = IF mining = 1 THEN "returned" ELSE "starting"]
    /\ UNCHANGED <<mintFrame, quitCh, closed, stopperClosed, crashed, mining, loops>>

\* StartMining of that call: the miner.Start it spawns calls worker.start().
ApiStartMining(c) ==
    /\ ~crashed
    /\ apiStart[c] = "starting"
    /\ Len(loops) < MaxLoops
    /\ apiStart' = [apiStart EXCEPT ![c] = "returned"]
    /\ LET r == start(mining, loops)
       IN  /\ mining' = r.mining
           /\ loops' = r.loops
    /\ UNCHANGED <<mintFrame, quitCh, closed, stopperClosed, crashed>>

\* mintLoop i takes a tick and calls mintBlock: one mint attempt.
LoopTick(i) ==
    /\ ~crashed
    /\ loops[i] = "select"
    /\ loops' = [loops EXCEPT ![i] = "mintBlock"]
    /\ UNCHANGED <<mintFrame, quitCh, closed, stopperClosed, crashed, mining, apiStart>>

\* mintBlock of loop i returns.
LoopMinted(i) ==
    /\ ~crashed
    /\ loops[i] = "mintBlock"
    /\ loops' = [loops EXCEPT ![i] = "select"]
    /\ UNCHANGED <<mintFrame, quitCh, closed, stopperClosed, crashed, mining, apiStart>>

\* mintLoop i receives from the closed stopper: close(self.quitCh).
LoopStopClose(i) ==
    /\ ~crashed
    /\ loops[i] = "select"
    /\ stopperClosed
    /\ IF quitCh \in closed
       THEN /\ crashed' = TRUE
            /\ UNCHANGED <<closed, loops>>
       ELSE /\ closed' = closed \cup {quitCh}
            /\ loops' = [loops EXCEPT ![i] = "stopping"]
            /\ crashed' = FALSE
    /\ UNCHANGED <<mintFrame, quitCh, stopperClosed, mining, apiStart>>

\* mintLoop i replaces quitCh and stopper and returns.
LoopStopReplace(i) ==
    /\ ~crashed
    /\ loops[i] = "stopping"
    /\ quitCh' = make({quitCh, sealQ})
    /\ closed' = closed \cap {sealQ}
    /\ stopperClosed' = FALSE
    /\ loops' = [loops EXCEPT ![i] = "returned"]
    /\ UNCHANGED <<mintFrame, crashed, mining, apiStart>>

NextMint ==
    \/ WorkerStart
    \/ WorkerStop
    \/ \E c \in Callers : ApiIsMining(c)
    \/ \E c \in Callers : ApiStartMining(c)
    \/ \E i \in DOMAIN loops : LoopTick(i)
    \/ \E i \in DOMAIN loops : LoopMinted(i)
    \/ \E i \in DOMAIN loops : LoopStopClose(i)
    \/ \E i \in DOMAIN loops : LoopStopReplace(i)

SpecMint == InitPM /\ [][NextMint]_vars

\* =================================================================== SpecDl
\* The downloader's sync of blocks 1 .. MaxDlBlocks on top of the genesis
\* block: headers are asked for and arrive in any order, a header is valid
\* once the header before it is, bodies are asked for valid headers only and
\* arrive in any order, and complete blocks wait until it is their turn.
dlFrame == <<chainVars, loopVars, workerVars, lockVars, calcVars, lesVars, respVars, nodeVars, sh,
             stopVars, mintVars, fetcher>>
\* Block n has a header that is checked against its parent's (the genesis
\* block, number 0, is in the chain from the start).
Linked(stage, n) ==
    IF n = 0 THEN TRUE ELSE stage[n] \in {"linked", "bodyAsked", "complete", "inserted"}

\* The block to insert next, with the buffer's order not kept.
nextInsertAny(db, stage) == { n \in DlBlocks : stage[n] = "complete" }

\* The block the importer takes next from the buffer: the one that follows
\* the last block of the chain, when it is complete.
nextInsert(db, stage) ==
    { n \in DlBlocks : stage[n] = "complete" /\ n = db[Len(db)] + 1 }

\* A header or a body is asked of a peer.
DlAsk(n) ==
    /\ \/ dl.stage[n] = "none" /\ dl' = [dl EXCEPT !.stage[n] = "headerAsked"]
       \/ dl.stage[n] = "linked" /\ dl' = [dl EXCEPT !.stage[n] = "bodyAsked"]
    /\ UNCHANGED <<dlFrame, importVars>>

\* A header or a body arrives, whatever was asked before or after it.
DlArrive(n) ==
    /\ \/ dl.stage[n] = "headerAsked" /\ dl' = [dl EXCEPT !.stage[n] = "header"]
       \/ /\ dl.stage[n] = "bodyAsked"
          /\ dl' = [stage |-> [dl.stage EXCEPT ![n] = "complete"],
                    late |-> dl.late \/ \E k \in DlBlocks :
                                           k < n /\ dl.stage[k] \notin {"complete", "inserted"}]
    /\ UNCHANGED <<dlFrame, importVars>>

\* A header that arrived is checked against the header before it.
DlLink(n) ==
    /\ dl.stage[n] = "header"
    /\ Linked(dl.stage, n - 1)
    /\ dl' = [dl EXCEPT !.stage[n] = "linked"]
    /\ UNCHANGED <<dlFrame, importVars>>

\* The importer writes the next block of the buffer to the chain store.
DlInsert ==
    /\ \E n \in nextInsert(chainDb, dl.stage) :
           /\ chainDb' = Append(chainDb, n)
           /\ dl' = [dl EXCEPT !.stage[n] = "inserted"]
    /\ UNCHANGED <<dlFrame, imp>>

\* The sync is cancelled: what was asked, received or buffered and not yet
\* inserted is dropped.
DlCancel ==
    /\ \E n \in DlBlocks : dl.stage[n] \notin {"none", "inserted"}
    /\ dl' = [dl EXCEPT !.stage = [n \in DlBlocks |->
                                      IF dl.stage[n] = "inserted" THEN "inserted" ELSE "none"]]
    /\ UNCHANGED <<dlFrame, importVars>>

NextDl ==
    \/ \E n \in DlBlocks : DlAsk(n)
    \/ \E n \in DlBlocks : DlArrive(n)
    \/ \E n \in DlBlocks : DlLink(n)
    \/ DlInsert
    \/ DlCancel

SpecDl == InitPM /\ [][NextDl]_vars

\* ================================================================ SpecFetch
\* The fetcher: announcements of block hashes by peers and the fetches it
\* schedules for them, within one dedup window.
fetchFrame == <<chainVars, loopVars, workerVars, lockVars, calcVars, lesVars, respVars, nodeVars,
                sh, importVars, stopVars, mintVars, dl>>

\* An announcement queued whether the hash is being fetched or not.
announceAlways(f, p, h) ==
    IF f.pending[p] >= hashLimit
    THEN [f EXCEPT !.propAnnounceDOSMeter = @ + 1]
    ELSE [f EXCEPT !.announced[h] = @ \cup {p}, !.pending[p] = @ + 1]

\* An announcement of hash h by peer p: over the peer's limit it is counted
\* on propAnnounceDOSMeter and dropped; for a hash that is being fetched, or
\* that this peer has announced already, it is dropped; else it is queued.
announce(f, p, h) ==
    IF f.pending[p] >= hashLimit
    THEN [f EXCEPT !.propAnnounceDOSMeter = @ + 1]
    ELSE IF h \in f.fetching \/ p \in f.announced[h] THEN f
    ELSE [f EXCEPT !.announced[h] = @ \cup {p}, !.pending[p] = @ + 1]

\* Peer p announces hash h.
Notify(p, h) ==
    /\ fetcher.announces[h] < MaxAnnounces
    /\ fetcher' = [announce(fetcher, p, h) EXCEPT !.announces[h] = @ + 1]
    /\ UNCHANGED fetchFrame

\* The fetch of an announced hash is scheduled: one of the peers that have
\* announced it is asked for the header, and the hash's announcements leave
\* the queue.
FetchSchedule(h, p) ==
    /\ p \in fetcher.announced[h]
    /\ fetcher' = [fetcher EXCEPT
                       !.fetching = @ \cup {h},
                       !.headerFetchMeter[h] = @ + 1,
                       !.pending = [q \in Peers |->
                                       IF q \in fetcher.announced[h] THEN @[q] - 1 ELSE @[q]],
                       !.announced[h] = {}]
    /\ UNCHANGED fetchFrame

NextFetch ==
    \/ \E p \in Peers, h \in Hashes : Notify(p, h)
    \/ \E p \in Peers, h \in Hashes : FetchSchedule(h, p)

SpecFetch == InitPM /\ [][NextFetch]_vars

\* ================================================================= SpecTime
\* The other variables SpecTime leaves alone.
timeFrame == <<chainVars, loopVars, workerVars, lockVars, lesVars, respVars, nodeVars,
               sh, importVars, stopVars, mintVars, dl, fetcher>>
\* int64(x): the low IntBits bits of x, read as a signed number.
Int64(x) ==
    LET m == x % 2^IntBits IN IF m > MaxInt64 THEN m - 2^IntBits ELSE m
\* time.Now().Unix() and parent.Time(), a big.Int of a header.
Nows == 0 .. MaxInt64
ParentTimes == 0 .. 2^IntBits - 1

\* The timestamp of createNewWork: the clock, or the parent's time plus one
\* when the parent's time is not before the clock.
tstampOf(now, pt) == IF pt >= now THEN Int64(Int64(pt) + 1) ELSE now

\* createNewWork builds the header of a block on a parent of time pt when
\* the clock reads now.
CreateHeaderTime(now, pt) ==
    /\ tm' = [built |-> TRUE, now |-> now, parent |-> pt, Time |-> tstampOf(now, pt)]
    /\ UNCHANGED <<timeFrame, hs, ns, cbs>>

NextTime == \E now \in Nows, pt \in ParentTimes : CreateHeaderTime(now, pt)

SpecTime == InitPM /\ [][NextTime]_vars

\* ============================================================== SpecNodeSet
\* The other variables SpecNodeSet leaves alone.
nodeSetFrame == <<chainVars, loopVars, workerVars, lockVars, lesVars, respVars, nodeVars,
                  sh, importVars, stopVars, mintVars, dl, fetcher, tm, hs>>

\* The body of Put with the node stored whether the key is present or not.
PutOverwrite(set, key, value) ==
    [set EXCEPT !.db = [k \in DOMAIN set.db \cup {key} |->
                           IF k = key THEN value ELSE set.db[k]],
                !.dataSize = @ + Len(value)]

\* The body of NodeSet.Put, run under db.lock: a key that is not in the map
\* is stored with a copy of the value and the value's length is added to
\* dataSize; a key that is present changes nothing.
Put(set, key, value) ==
    IF key \notin DOMAIN set.db
    THEN [set EXCEPT !.db = set.db @@ (key :> value), !.dataSize = @ + Len(value)]
    ELSE set

\* Goroutine g calls Put(key, value): db.lock.Lock().
PutLock(g, key, value) ==
    /\ ns.n < MaxPuts
    /\ ns.pc[g] = "idle"
    /\ ns.lock = "none"
    /\ ns' = [ns EXCEPT !.lock = g, !.pc[g] = "locked", !.n = @ + 1,
                        !.arg[g] = [key |-> key, value |-> value]]
    /\ UNCHANGED <<nodeSetFrame, cbs>>

\* The body of Put; first keeps, for every key, the value of the first Put.
PutBody(g) ==
    /\ ns.pc[g] = "locked"
    /\ LET a == ns.arg[g]
       IN  ns' = [Put(ns, a.key, a.value) EXCEPT
                     !.pc[g] = "unlock",
                     !.first = IF a.key \in DOMAIN ns.first THEN ns.first
                               ELSE ns.first @@ (a.key :> a.value)]
    /\ UNCHANGED <<nodeSetFrame, cbs>>

\* The deferred db.lock.Unlock(): Put returns.
PutUnlock(g) ==
    /\ ns.pc[g] = "unlock"
    /\ ns' = [ns EXCEPT !.lock = "none", !.pc[g] = "idle"]
    /\ UNCHANGED <<nodeSetFrame, cbs>>

NextNodeSet ==
    \/ \E g \in Putters, key \in Keys, value \in Values : PutLock(g, key, value)
    \/ \E g \in Putters : PutBody(g)
    \/ \E g \in Putters : PutUnlock(g)

SpecNodeSet == InitPM /\ [][NextNodeSet]_vars

\* ============================================================= SpecCoinbase
\* DATx.SetCoinbase, first half: self.lock.Lock(); self.coinbase = coinbase;
\* self.lock.Unlock(). The call to the miner follows outside the lock.
SetCoinbaseField(g, a) ==
    /\ cbs.n < MaxSets
    /\ cbs.pc[g] = "idle"
    /\ cbs' = [cbs EXCEPT !.coinbase = a, !.pc[g] = "miner", !.arg[g] = a, !.n = @ + 1]
    /\ UNCHANGED <<nodeSetFrame, ns>>

\* DATx.SetCoinbase, second half: self.miner.SetCoinbase(coinbase), which hands
\* the address to worker.setCoinbase: self.coinbase = addr under worker.mu.
SetCoinbaseMiner(g) ==
    /\ cbs.pc[g] = "miner"
    /\ cbs' = [cbs EXCEPT !.worker = cbs.arg[g], !.pc[g] = "idle"]
    /\ UNCHANGED <<nodeSetFrame, ns>>

NextCoinbase ==
    \/ \E g \in Setters, a \in Addrs \cup {ZeroAddr} : SetCoinbaseField(g, a)
    \/ \E g \in Setters : SetCoinbaseMiner(g)

SpecCoinbase == InitPM /\ [][NextCoinbase]_vars

\* ============================================================== SpecHeaders
\* The other variables SpecHeaders leaves alone.
headersFrame == <<chainVars, loopVars, workerVars, lockVars, lesVars, respVars, nodeVars,
                  sh, importVars, stopVars, mintVars, dl, fetcher>>
\* uint64(x): the low IntBits bits of x.
Uint64(x) == x % 2^IntBits
\* The chain of the server: the header with number n has hash n + 1 and
\* parent hash n, so that the parent hash of the genesis header is the empty
\* hash common.Hash{}, 0. NoHeader is the nil *types.Header.
NoHeader == -1
EmptyHash == 0
UnknownHash == ChainHead + 2
HashOf(n) == n + 1
GetHeaderByNumber(n) == IF n <= ChainHead THEN n ELSE NoHeader
GetHeaderByHash(h) == IF h \in 1 .. ChainHead + 1 THEN h - 1 ELSE NoHeader
GetHeader(h, n) == IF GetHeaderByHash(h) = n THEN n ELSE NoHeader
\* GetBlockHashesFromHash(hash, max): the hashes of up to max ancestors of
\* the header with that hash, the parent's first.
GetBlockHashesFromHash(h, max) ==
    LET n == GetHeaderByHash(h)
        k == IF max < n THEN max ELSE n
    IN  [i \in 1 .. k |-> HashOf(n - i)]

\* The inner loop of the hash based traversal towards the genesis block:
\* k steps from header number of hash h to its parent.
RECURSIVE walkBack(_, _, _)
walkBack(h, number, k) ==
    IF k <= 0 THEN [Hash |-> h, unknown |-> FALSE]
    ELSE IF GetHeader(h, number) # NoHeader
    THEN walkBack(number, Uint64(number - 1), k - 1)
    ELSE [Hash |-> h, unknown |-> TRUE]

\* The switch of the GetBlockHeadersMsg case that advances the query from
\* the header origin to the next header: the query after it, whether the
\* next header is unknown, and whether an index was out of range.
advance(query, origin) ==
    CASE query.Hash # EmptyHash /\ query.Reverse ->
            LET r == walkBack(query.Hash, origin, Int64(query.Skip) + 1)
            IN  [query |-> [query EXCEPT !.Hash = r.Hash], unknown |-> r.unknown,
                 panic |-> FALSE]
      [] query.Hash # EmptyHash /\ ~query.Reverse ->
            LET header == GetHeaderByNumber(Uint64(origin + query.Skip + 1)) IN
            IF header = NoHeader
            THEN [query |-> query, unknown |-> TRUE, panic |-> FALSE]
            ELSE LET hashes == GetBlockHashesFromHash(HashOf(header),
                                                      Uint64(query.Skip + 1)) IN
                 IF query.Skip + 1 > Len(hashes)
                 THEN [query |-> query, unknown |-> FALSE, panic |-> TRUE]
                 ELSE IF hashes[query.Skip + 1] = query.Hash
                 THEN [query |-> [query EXCEPT !.Hash = HashOf(header)],
                       unknown |-> FALSE, panic |-> FALSE]
                 ELSE [query |-> query, unknown |-> TRUE, panic |-> FALSE]
      [] query.Reverse ->
            IF query.Number >= Uint64(query.Skip + 1)
            THEN [query |-> [query EXCEPT
                                !.Number = Uint64(query.Number - Uint64(query.Skip + 1))],
                  unknown |-> FALSE, panic |-> FALSE]
            ELSE [query |-> query, unknown |-> TRUE, panic |-> FALSE]
      [] OTHER ->
            [query |-> [query EXCEPT
                           !.Number = Uint64(query.Number + Uint64(query.Skip + 1))],
             unknown |-> FALSE, panic |-> FALSE]

\* The loop that gathers the headers of a query: it ends at an unknown
\* header, at Amount headers (the byte limit softResponseLimit is not
\* reached by MaxHeaderFetch headers of estHeaderRlpSize) or in a panic.
RECURSIVE gatherHeaders(_, _, _)
gatherHeaders(query, hashMode, headers) ==
    IF Len(headers) >= query.Amount THEN [headers |-> headers, panic |-> FALSE]
    ELSE LET origin == IF hashMode THEN GetHeaderByHash(query.Hash)
                       ELSE GetHeaderByNumber(query.Number)
         IN  IF origin = NoHeader THEN [headers |-> headers, panic |-> FALSE]
             ELSE LET a == advance(query, origin)
                      got == Append(headers, origin)
                  IN  IF a.panic THEN [headers |-> got, panic |-> TRUE]
                      ELSE IF a.unknown THEN [headers |-> got, panic |-> FALSE]
                      ELSE gatherHeaders(a.query, hashMode, got)

\* The queries of a peer: by hash (of a header of the chain or unknown) or,
\* with the empty hash, by number.
Queries ==
    [Hash : {EmptyHash}, Number : 0 .. 2^IntBits - 1, Amount : 0 .. MaxAmount,
     Skip : 0 .. 2^IntBits - 1, Reverse : BOOLEAN]
    \cup
    [Hash : 1 .. UnknownHash, Number : {0}, Amount : 0 .. MaxAmount,
     Skip : 0 .. 2^IntBits - 1, Reverse : BOOLEAN]

\* handleMsg serves a GetBlockHeadersMsg that reject has let through.
ServeHeaders(query) ==
    /\ ~hs.served
    /\ LET r == gatherHeaders(query, query.Hash # EmptyHash, <<>>)
       IN  hs' = [served |-> TRUE, query |-> query, headers |-> r.headers,
                  panic |-> r.panic]
    /\ UNCHANGED <<headersFrame, tm, ns, cbs>>

\* The reply is sent and handleMsg returns: handle reads the next message.
ServeReturn ==
    /\ hs.served
    /\ hs' = NoServe
    /\ UNCHANGED <<headersFrame, tm, ns, cbs>>

NextHeaders ==
    \/ \E query \in Queries : ServeHeaders(query)
    \/ ServeReturn

SpecHeaders == InitPM /\ [][NextHeaders]_vars

\* ============================================= properties, SpecResp, SpecSync
\* C21 as stated: every response whose payload a consumer takes for one of
\* its requests is taken for the request that carries the response's ReqID,
\* never for another request of the same peer.
C21_MatchedByReqID ==
    rlast.served # 0 => rlast.served = rlast.reqID

\* C27: a header request returns ErrNoPeers exactly when the distributor
\* closed the channel without sending; a peer whose request timed out or
\* could not be sent has failed for this sync, the request is retried only
\* against a peer that has not failed, and the sync returns errNoPeers only
\* when no registered peer is left that has not failed, after which a new
\* sync can start.
C27_TimeoutRetriesThenNoPeers ==
    [][/\ (sync'.reqErr = "ErrNoPeers") = ~sync'.sent
       /\ sync.state = "waiting" /\ sync'.state = "picking"
            => sync'.failed = sync.failed \cup {sync.cur} /\ dlReqs'[sync.cur] = {}
       /\ sync.state = "picking" /\ sync'.state = "waiting"
            => sync'.cur \in peerSet \ sync.failed
       /\ sync.state = "picking" /\ sync'.state = "picking" /\ sync' # sync
            => sync'.reqErr = "ErrNoPeers" /\ sync'.failed # sync.failed
       /\ sync.state = "picking" /\ sync'.state = "idle"
            => /\ sync'.err = "errNoPeers"
               /\ peerSet \ sync.failed = {}
               /\ dlReqs' = dlReqs
               /\ pm.lightSync
      ]_vars

\* A sync that lost one peer to a timeout and the other to a request that
\* could not be sent has returned errNoPeers.
C27_Witness ==
    /\ sync.err = "errNoPeers"
    /\ sync.failed = Peers
    /\ sync.reqErr = "ErrNoPeers"
    /\ sync.state = "idle"

\* ======================================================= properties, SpecNode
\* The accounts held by some wallet.
Held ==
    { a \in Addrs : \E i \in DOMAIN wallets : \E j \in DOMAIN wallets[i] : wallets[i][j] = a }
FirstAccount ==
    IF Len(wallets) > 0 /\ Len(wallets[1]) > 0 THEN wallets[1][1] ELSE ZeroAddr
\* The validator and the coinbase as they resolve: the configured address,
\* else the first account of the first wallet, else none.
ResolvedValidator == IF eth.validator # ZeroAddr THEN eth.validator ELSE FirstAccount
ResolvedCoinbase == IF eth.coinbase # ZeroAddr THEN eth.coinbase ELSE FirstAccount
ChecksPass ==
    /\ ResolvedValidator # ZeroAddr
    /\ ResolvedCoinbase # ZeroAddr
    /\ ResolvedValidator \in Held

\* C22: StartMining returns an error, starts no miner and leaves acceptTxs
\* alone when the validator or the coinbase cannot be resolved or no local
\* wallet holds the validator's account; it starts the miner, and sets
\* acceptTxs for local mining, only when all three checks pass.
C22_StartMiningChecks ==
    [][smRet'.n # smRet.n =>
         /\ ~ChecksPass => /\ smRet'.err # "nil"
                           /\ eth' = eth
         /\ ResolvedValidator = ZeroAddr => smRet'.err = "validator missing"
         /\ ChecksPass => /\ smRet'.err = "nil"
                          /\ eth'.minerStarts = Append(eth.minerStarts, ResolvedCoinbase)
                          /\ eth'.acceptTxs = IF smRet'.local THEN 1 ELSE eth.acceptTxs
      ]_vars

\* StartMining has failed for a validator no local wallet holds, although
\* the validator and the coinbase resolve, and no miner was started.
C22_Witness ==
    /\ smRet.err = "signer missing"
    /\ ResolvedValidator # ZeroAddr /\ ResolvedCoinbase # ZeroAddr
    /\ ResolvedValidator \notin Held
    /\ eth.minerStarts = <<>> /\ eth.acceptTxs = 0

\* ==================================================== properties, SpecSetHead
\* C24: SetHead moves the chain head only after downloader.Cancel() has
\* returned, and the cancellation stops the sync and nothing else: the
\* worker (its mining flag and its mint loop) and the registered peers are
\* as they were.
C24_CancelThenSetHead ==
    [][sh' # sh =>
         /\ head' # head => sh.pc = "called" /\ sh'.pc = "idle"
         /\ sh.pc = "idle" =>
              /\ sync'.state = "idle" /\ dlReqs' = [p \in Peers |-> {}]
              /\ head' = head
              /\ UNCHANGED <<workerVars, peerSet, hpc, store>>
         /\ sh.pc = "called" =>
              /\ store[head'].Number <= sh.number
              /\ UNCHANGED <<sync, workerVars, peerSet, hpc>>
      ]_vars

\* A SetHead call that found a sync running has rewound the head, and the
\* miner started before it still mines with both peers registered.
C24_Witness ==
    /\ sh.n = 1 /\ sh.pc = "idle" /\ sh.wasSyncing
    /\ store[head].Number = sh.number
    /\ \E h \in DOMAIN store : store[h].Number > sh.number
    /\ mining = 1 /\ mpc # "stopped"
    /\ peerSet = Peers

\* ===================================================== properties, SpecImport
\* The blocks of a list.
BlocksOf(q) == { q[i] : i \in DOMAIN q }

\* C28: ImportChain gives InsertChain no batch whose blocks are all in the
\* chain already, so the import of a file whose blocks are all present calls
\* InsertChain not once, returns success and leaves the store as it was; and
\* after any sequence of imports the store holds every block at most once.
C28_ImportIdempotent ==
    [][imp'.n # imp.n =>
         /\ \A i, j \in DOMAIN chainDb' : chainDb'[i] = chainDb'[j] => i = j
         /\ \A i \in DOMAIN imp'.calls : imp'.calls[i].lacked
         /\ BlocksOf(imp'.file) \subseteq BlocksOf(chainDb)
              => imp'.calls = <<>> /\ imp'.ok /\ chainDb' = chainDb
         /\ BlocksOf(chainDb) \subseteq BlocksOf(chainDb')
      ]_vars

\* The same file of more than one batch was imported twice: the first import
\* wrote its blocks, the second one called InsertChain for none of them.
C28_Witness ==
    /\ imp.n = 2 /\ imp.again
    /\ Len(imp.file) > BatchCap
    /\ BlocksOf(imp.file) \subseteq BlocksOf(chainDb)
    /\ imp.calls = <<>> /\ imp.ok

\* ======================================================= properties, SpecStop
\* C23 as stated: no Run callback enters handle once Stop's send on
\* noMorePeers has completed, and when Stop has returned no handle
\* invocation is still running.
C23_BroadcastAndJoin ==
    [][/\ \A p \in Peers : run[p] = "added" /\ run'[p] = "handle" => stop.spc = "idle"
       /\ stop'.spc = "returned" => \A p \in Peers : run'[p] # "handle"
      ]_vars

\* Stop has returned while a session that had passed its select before is
\* inside handle.
C23_HandleAfterStop ==
    stop.spc = "returned" => \A p \in Peers : run[p] # "handle"

\* ======================================================= properties, SpecMint
\* C29 as stated: at most one mintLoop is active per worker, and whenever
\* mining is 1 and no stop is pending a mintLoop is running.
C29_OneMintLoop ==
    /\ Cardinality(Active) <= 1
    /\ mining = 1 /\ ~stopperClosed /\ ~crashed => Active # {}

\* Two mintLoops that are both inside mintBlock for the same tick.
C29_NoDoubleAttempt ==
    Cardinality({ i \in DOMAIN loops : loops[i] = "mintBlock" }) <= 1

\* ================================================= properties, Spec (channels)
\* C30 as stated: no quitCh and no stopper is closed twice, so the worker
\* never panics with a close of a closed channel.
C30_NoDoubleClose == ~crashed

\* ========================================================= properties, SpecDl
\* C25: whatever the order in which headers and bodies arrive, the blocks the
\* downloader has written to the chain store are strictly ascending by
\* number with no gap, and a block that arrived before its turn is still in
\* the buffer.
C25_AscendingNoGaps ==
    /\ \A i \in DOMAIN chainDb : chainDb[i] = i - 1
    /\ \A n \in DlBlocks : dl.stage[n] = "inserted" <=> n < Len(chainDb)

\* All blocks were inserted although a body had arrived before the body of
\* a lower block.
C25_Witness ==
    /\ dl.late
    /\ Len(chainDb) = MaxDlBlocks + 1

\* ====================================================== properties, SpecFetch
\* C26: however often a hash is announced, by one peer or by several, at
\* most one fetch is made for it.
C26_OneFetchPerHash ==
    \A h \in Hashes : fetcher.headerFetchMeter[h] <= 1

\* A hash was announced more than twice, by both peers, and fetched once.
C26_Witness ==
    \E h \in Hashes :
        /\ fetcher.announces[h] > 2
        /\ fetcher.headerFetchMeter[h] = 1
        /\ fetcher.announced[h] = {}
        /\ fetcher.propAnnounceDOSMeter = 0

\* ============================================ properties, Spec (Seal's channel)
\* C31 as stated: every Seal call is given a quit channel that is open when
\* the call starts, whatever update() and mintLoop have closed before.
C31_SealChannelOpen ==
    [][mpc = "seal" /\ mpc' = "sealing" => sealQ' \notin closed']_vars

\* ====================================================== properties, SpecFair
\* C32 as stated: once stop() has closed stopper, mintLoop exits (unless the
\* worker has panicked), also when Seal blocks until its quit channel is
\* closed and no chain head arrives; and a loop that has exited starts no
\* mint attempt before the next start().
C32_Exited == mpc = "stopped" => mpc' = "stopped" \/ (mining' = 1 /\ mpc' = "select")
C32_StopEndsLoop ==
    /\ (stopperClosed /\ ~crashed) ~> (mpc = "stopped" \/ crashed)
    /\ [][C32_Exited]_vars

\* ============================================== properties, Spec (pending block)
\* C33 as stated: pending() and pendingBlock() return a block that is not
\* nil in every state of the worker, also after a mint attempt whose
\* createNewWork failed after makeCurrent.
C33_PendingNotNil == ~pendingBlock(mining, works[current]).nil

\* ============================================ properties, SpecTx (termination)
\* C34: the queue commitTransactions starts with holds the pending
\* transactions; every iteration of its loop, whatever its branch, leaves
\* the queue with at least one transaction less; and the loop is left
\* exactly when no transaction is left to peek at.
C34_Starts == tpc = "idle" /\ tpc' = "create" => SumLen(txq', Senders) = SumLen(pool, Senders)
C34_IterRemoves == InLoop /\ tpc' = tpc => SumLen(txq', Senders) < SumLen(txq, Senders)
C34_Exits == InLoop /\ tpc' = "idle" => Live(txq) = {}
C34_Terminates == [][C34_Starts /\ C34_IterRemoves /\ C34_Exits]_vars

\* A loop over a full pool is over, and its last iteration passed over a
\* replay-protected transaction.
C34_Witness ==
    /\ tpc = "create"
    /\ SumLen(pool, Senders) = MaxPool
    /\ Live(txq) = {}
    /\ txErr = "skip"

\* ======================================================= properties, SpecTime
\* C35 as stated: the Time of every header createNewWork builds is the
\* larger of the clock and of the parent's time plus one, and so is
\* greater than the parent's time, for every clock and every parent time.
C35_TimeAfterParent ==
    tm.built =>
        /\ tm.Time > tm.parent
        /\ tm.Time = IF tm.now > tm.parent + 1 THEN tm.now ELSE tm.parent + 1

\* The same for the parents whose time plus one is an int64.
C35_BelowMaxInt64 ==
    tm.built /\ tm.parent < MaxInt64 => tm.Time > tm.parent

\* ==================================================== properties, SpecHeaders
\* C36 as stated: the reply to a served GetBlockHeaders request holds at
\* most Amount headers, pairwise distinct, whose numbers move in the
\* requested direction in steps of exactly Skip + 1, for every Skip and
\* origin, and serving it indexes no slice out of range.
C36_HeadersInSteps ==
    hs.served =>
        /\ ~hs.panic
        /\ Len(hs.headers) <= hs.query.Amount
        /\ \A i, j \in DOMAIN hs.headers : i # j => hs.headers[i] # hs.headers[j]
        /\ \A i \in 1 .. Len(hs.headers) - 1 :
              hs.headers[i + 1] - hs.headers[i] =
                  IF hs.query.Reverse THEN 0 - (hs.query.Skip + 1) ELSE hs.query.Skip + 1

\* The same for the queries whose Skip + 1 and origin number plus Skip + 1
\* do not wrap and whose Skip is an int.
C36_NoWrap ==
    hs.served /\ hs.query.Skip < MaxInt64 /\ hs.query.Number + hs.query.Skip + 1 < 2^IntBits =>
        C36_HeadersInSteps

\* A served query by hash whose reply indexed a slice out of range.
C36_Panic == hs.served /\ hs.panic

\* ============================================== properties, SpecLes (costs)
\* C37 as stated: for every served request the cost passed to
\* RequestProcessed is the cost reject compared with the peer's buffer when
\* it accepted the request, and so is not above that buffer value.
C37_ChargedAsAccepted ==
    "RequestProcessed" \in hlast.did =>
        /\ RequestProcessedCost(hlast.cnt, fcCosts(hlast.code)) =
               rejectCost(hlast.cnt, fcCosts(hlast.code))
        /\ RequestProcessedCost(hlast.cnt, fcCosts(hlast.code)) <= hlast.bufValue

\* The same for the requests whose cost is not above BufLimit.
C37_BelowBufLimit ==
    ("RequestProcessed" \in hlast.did
        /\ RequestProcessedCost(hlast.cnt, fcCosts(hlast.code)) <= BufLimit) =>
        C37_ChargedAsAccepted

\* ======================================================= properties, SpecPeer
\* C38: a peer is in the peer set only while its handle is in the main loop,
\* that is after the handshake and Register have succeeded; it enters the set
\* in that step of handle only; and once handle has returned, for whatever
\* reason and whether or not the downloader had removed the peer before, the
\* peer is not in the set.
C38_InSetOnlyInLoop ==
    \A p \in Peers :
        /\ p \in peerSet => hpc[p] = "loop"
        /\ hpc[p] = "done" => p \notin peerSet
C38_Enters ==
    \A p \in peerSet' \ peerSet : hpc[p] = "new" /\ hpc'[p] = "loop"
C38_CreatedAndDestroyed == []C38_InSetOnlyInLoop /\ [][C38_Enters]_vars

\* The handle of one peer has returned on a protocol error, the other peer
\* was removed by the downloader while its handle is still in the loop, and a
\* peer has been registered.
C38_Witness ==
    /\ hlast.err = "ErrExtraStatusMsg"
    /\ hpc[hlast.peer] = "done"
    /\ \E q \in Peers \ {hlast.peer} : hpc[q] = "loop" /\ q \notin peerSet

\* ==================================================== properties, SpecNodeSet
RECURSIVE SumValues(_, _)
SumValues(db, K) ==
    IF K = {} THEN 0
    ELSE LET k == CHOOSE x \in K : TRUE IN Len(db[k]) + SumValues(db, K \ {k})

\* C39: whenever a reader can take the lock, DataSize() is the sum of the
\* lengths of the stored values, KeyCount() is the number of distinct keys
\* put so far, and every key holds the value of its first Put; and a Put for
\* a key that is present changes neither the map nor dataSize.
C39_Sizes ==
    ns.lock = "none" =>
        /\ ns.dataSize = SumValues(ns.db, DOMAIN ns.db)
        /\ Cardinality(DOMAIN ns.db) = Cardinality(DOMAIN ns.first)
        /\ DOMAIN ns.db = DOMAIN ns.first
        /\ \A k \in DOMAIN ns.db : ns.db[k] = ns.first[k]
C39_FirstWriteWins ==
    \A g \in Putters :
        ns.pc[g] = "locked" /\ ns'.pc[g] = "unlock" /\ ns.arg[g].key \in DOMAIN ns.db =>
            ns'.db = ns.db /\ ns'.dataSize = ns.dataSize
C39_NodeSetInvariant == []C39_Sizes /\ [][C39_FirstWriteWins]_vars

\* Both goroutines have put, both keys are stored, and one goroutine's Put
\* came with another value than the one stored for its key.
C39_Witness ==
    /\ ns.lock = "none"
    /\ ns.n = MaxPuts
    /\ DOMAIN ns.db = Keys
    /\ \A g \in Putters : ns.arg[g].key \in Keys
    /\ \E g \in Putters : ns.db[ns.arg[g].key] # ns.arg[g].value

\* =================================================== properties, SpecCoinbase
\* C40: when every SetCoinbase call has returned, the backend's coinbase and
\* the worker's coinbase are the same address.
C40_SameCoinbase ==
    (\A g \in Setters : cbs.pc[g] = "idle") => cbs.coinbase = cbs.worker

====
